---- MODULE Spec2Model ----
(***************************************************************************)
(* PetraCache: memcached ASCII protocol server over an LSM engine.         *)
(* Byte strings are sequences of integers 0..255.  Positions and lengths   *)
(* follow the source (0-based offsets into a buffer).                      *)
(***************************************************************************)
EXTENDS Integers, Sequences, FiniteSets, TLC

VARIABLES
    db,                 \* the engine's contents: key -> stored bytes, or Absent
    now,                \* current_timestamp(): seconds since the epoch
    expired_removed,    \* EXPIRED_KEYS_REMOVED
    storage_errors,     \* metrics.storage_errors
    st_last,            \* the last facade call: arguments, time, pre-state, result
    st_written,         \* per key, the last completed set/delete of the facade
    steps,              \* number of facade calls made (bounds the run)
    race,               \* the facade calls in flight on concurrent tasks, and the
                        \* engine calls made so far, in order
    applied,            \* the last call of a function of the library: its name,
                        \* its arguments and what it returned
    cancelled,          \* cancel_token has been cancelled
    acceptor,           \* Server::run's loop: "running" or "stopped"
    max_connections,    \* config.max_connections
    permits,            \* permits available in connection_semaphore
    metrics,            \* total_connections, active_connections, rejected_connections,
                        \* protocol_errors
    conn,               \* per socket, the connection task: its position and locals
    sock,               \* per socket, the peer: bytes still to arrive, bytes received
    exec_log,           \* per socket, the commands executed and what was written for each
    acc_last            \* what the last accept saw and did

\* the store and its counters
stvars == <<db, now, expired_removed, storage_errors>>
\* the bookkeeping of the storage specification
ghvars == <<st_last, st_written, steps, race, applied>>
\* the server and its connections
cvars == <<cancelled, acceptor, max_connections, permits, metrics, conn, sock, exec_log,
           acc_last>>
svars == <<db, now, expired_removed, storage_errors, st_last, st_written, steps, race, applied, cancelled,
           acceptor, max_connections, permits, metrics, conn, sock, exec_log, acc_last>>

----------------------------------------------------------------------------
(* Bounds of the model *)

\* the clock starts here (any instant later than MAX_RELATIVE_TTL)
NowBase == 3000000
\* the clock advances at most this many seconds
MaxTicks == 2
\* facade calls in one run of the storage specification
MaxSteps == 2
\* sockets that may connect
NumSockets == 3
\* the largest config.max_connections tried
MaxConnections == 2
\* commands of a run during which the engine fails
MaxFaults == 1
\* length of the keys enumerated byte by byte
MaxKeyLen == 2
\* entries the compaction filter may remove in a run
MaxRemoved == 2
\* bytes after a SET header
MaxTail == 4
\* tasks that call the storage facade concurrently
NumCallers == 2

----------------------------------------------------------------------------
(* Byte strings *)

Absent == <<"absent">>

\* "\r\n"
CRLF == <<13, 10>>
SP == <<32>>

RECURSIVE LEBytes(_, _)
\* u64::to_le_bytes / u32::to_le_bytes: w bytes, least significant first
LEBytes(n, w) == IF w = 0 THEN <<>> ELSE <<n % 256>> \o LEBytes(n \div 256, w - 1)

RECURSIVE FromLE(_)
\* u64::from_le_bytes / u32::from_le_bytes
FromLE(bytes) ==
    IF bytes = <<>> THEN 0 ELSE Head(bytes) + 256 * FromLE(Tail(bytes))

RECURSIVE Itoa(_)
\* itoa::Buffer::format: shortest ASCII decimal
Itoa(n) == IF n < 10 THEN <<48 + n>> ELSE Itoa(n \div 10) \o <<48 + (n % 10)>>

\* buf[a..b] of the source: 0-based, b exclusive
Slice(buf, a, b) == SubSeq(buf, a + 1, b)

----------------------------------------------------------------------------
(* storage/value.rs *)

MAX_RELATIVE_TTL == 2592000

calculate_expire_at_lt(exptime, t) ==
    IF exptime = 0 THEN 0
    ELSE IF exptime < MAX_RELATIVE_TTL THEN t + exptime
    ELSE exptime

\* calculate_expire_at, with current_timestamp() = t
calculate_expire_at(exptime, t) ==
    IF exptime = 0 THEN 0
    ELSE IF exptime <= MAX_RELATIVE_TTL THEN t + exptime
    ELSE exptime

\* StoredValue::new
StoredValue_new(flags, exptime, data, t) ==
    [expire_at |-> calculate_expire_at(exptime, t), flags |-> flags, data |-> data]

\* StoredValue::encode
encode(v) == LEBytes(v.expire_at, 8) \o LEBytes(v.flags, 4) \o v.data

decode_data_from_8(bytes) ==
    IF Len(bytes) < 12
    THEN [ok |-> FALSE, err |-> "Decoding"]
    ELSE [ok |-> TRUE,
          value |-> [expire_at |-> FromLE(Slice(bytes, 0, 8)),
                     flags |-> FromLE(Slice(bytes, 8, 12)),
                     data |-> Slice(bytes, 8, Len(bytes))]]

decode_flags_3_bytes(bytes) ==
    IF Len(bytes) < 12
    THEN [ok |-> FALSE, err |-> "Decoding"]
    ELSE [ok |-> TRUE,
          value |-> [expire_at |-> FromLE(Slice(bytes, 0, 8)),
                     flags |-> FromLE(Slice(bytes, 8, 11)),
                     data |-> Slice(bytes, 12, Len(bytes))]]

\* StoredValue::decode: Ok(value) or Err(Decoding)
decode(bytes) ==
    IF Len(bytes) < 12
    THEN [ok |-> FALSE, err |-> "Decoding"]
    ELSE [ok |-> TRUE,
          value |-> [expire_at |-> FromLE(Slice(bytes, 0, 8)),
                     flags |-> FromLE(Slice(bytes, 8, 12)),
                     data |-> Slice(bytes, 12, Len(bytes))]]

is_expired_strict(v, t) ==
    IF v.expire_at = 0 THEN FALSE ELSE t > v.expire_at

\* StoredValue::is_expired
is_expired(v, t) ==
    IF v.expire_at = 0 THEN FALSE ELSE t >= v.expire_at

----------------------------------------------------------------------------
(* error.rs: Display of the errors that reach a client *)

\* "Value decoding error: Value too short to decode"
MSG_Decoding == <<86, 97, 108, 117, 101, 32, 100, 101, 99, 111, 100, 105, 110, 103, 32, 101, 114, 114, 111, 114, 58, 32, 86, 97, 108, 117, 101, 32, 116, 111, 111, 32, 115, 104, 111, 114, 116, 32, 116, 111, 32, 100, 101, 99, 111, 100, 101>>
\* "RocksDB error: IO error" (the text after the colon is the engine's)
MSG_RocksDb == <<82, 111, 99, 107, 115, 68, 66, 32, 101, 114, 114, 111, 114, 58, 32, 73, 79, 32, 101, 114, 114, 111, 114>>

\* StorageError's Display
StorageError_to_string(err) == IF err = "Decoding" THEN MSG_Decoding ELSE MSG_RocksDb

----------------------------------------------------------------------------
(* storage/rocks.rs: the facade over the engine.  The engine's contents is  *)
(* a function from the keys present to their stored bytes.  Every engine    *)
(* call may fail; a facade operator takes, per engine call it makes,        *)
(* whether that call fails.                                                 *)

db_get(d, key) == IF key \in DOMAIN d THEN d[key] ELSE Absent

db_put(d, key, bytes) ==
    [x \in (DOMAIN d) \cup {key} |-> IF x = key THEN bytes ELSE d[x]]

db_delete(d, key) == [x \in (DOMAIN d) \ {key} |-> d[x]]

RECURSIVE db_delete_all(_, _)
db_delete_all(d, keys) ==
    IF keys = <<>> THEN d ELSE db_delete_all(db_delete(d, Head(keys)), Tail(keys))

NoValue == [expire_at |-> 0, flags |-> 0, data |-> <<>>]
OkSome(v) == [tag |-> "Some", value |-> v, err |-> ""]
OkNone == [tag |-> "None", value |-> NoValue, err |-> ""]
Err(e) == [tag |-> "Err", value |-> NoValue, err |-> e]

RocksStorage_get_keep(d, t, key, getFails, delFails) ==
    IF getFails THEN [res |-> Err("RocksDb"), db |-> d, expired |-> 0]
    ELSE IF db_get(d, key) = Absent THEN [res |-> OkNone, db |-> d, expired |-> 0]
    ELSE LET dec == decode(db_get(d, key)) IN
         IF ~dec.ok THEN [res |-> Err(dec.err), db |-> d, expired |-> 0]
         ELSE IF is_expired(dec.value, t)
              THEN [res |-> OkNone, db |-> d, expired |-> 1]
              ELSE [res |-> OkSome(dec.value), db |-> d, expired |-> 0]

RocksStorage_get_corrupt_as_miss(d, t, key, getFails, delFails) ==
    IF getFails THEN [res |-> Err("RocksDb"), db |-> d, expired |-> 0]
    ELSE IF db_get(d, key) = Absent THEN [res |-> OkNone, db |-> d, expired |-> 0]
    ELSE LET dec == decode(db_get(d, key)) IN
         IF ~dec.ok THEN [res |-> OkNone, db |-> d, expired |-> 0]
         ELSE IF is_expired(dec.value, t)
              THEN [res |-> OkNone,
                    db |-> IF delFails THEN d ELSE db_delete(d, key),
                    expired |-> 1]
              ELSE [res |-> OkSome(dec.value), db |-> d, expired |-> 0]

\* RocksStorage::get, with lazy expiration.  The lazy delete is best effort.
RocksStorage_get(d, t, key, getFails, delFails) ==
    IF getFails THEN [res |-> Err("RocksDb"), db |-> d, expired |-> 0]
    ELSE IF db_get(d, key) = Absent THEN [res |-> OkNone, db |-> d, expired |-> 0]
    ELSE LET dec == decode(db_get(d, key)) IN
         IF ~dec.ok THEN [res |-> Err(dec.err), db |-> d, expired |-> 0]
         ELSE IF is_expired(dec.value, t)
              THEN [res |-> OkNone,
                    db |-> IF delFails THEN d ELSE db_delete(d, key),
                    expired |-> 1]
              ELSE [res |-> OkSome(dec.value), db |-> d, expired |-> 0]

\* one element of get_multi's walk over the raw results: "Err", or the pair's
\* second component and whether the key goes to expired_keys
multi_entry(d, t, key, fails) ==
    IF fails THEN [bad |-> TRUE, err |-> "RocksDb", res |-> OkNone, exp |-> FALSE]
    ELSE IF db_get(d, key) = Absent
         THEN [bad |-> FALSE, err |-> "", res |-> OkNone, exp |-> FALSE]
    ELSE LET dec == decode(db_get(d, key)) IN
         IF ~dec.ok THEN [bad |-> TRUE, err |-> dec.err, res |-> OkNone, exp |-> FALSE]
         ELSE IF is_expired(dec.value, t)
              THEN [bad |-> FALSE, err |-> "", res |-> OkNone, exp |-> TRUE]
              ELSE [bad |-> FALSE, err |-> "", res |-> OkSome(dec.value), exp |-> FALSE]

RECURSIVE SelectKeys(_, _, _)
\* the keys whose walk entry is expired, in order, duplicates kept
SelectKeys(keys, entries, i) ==
    IF i > Len(keys) THEN <<>>
    ELSE (IF entries[i].exp THEN <<keys[i]>> ELSE <<>>) \o SelectKeys(keys, entries, i + 1)

RocksStorage_get_multi_delete_early(d, t, keys, failAt, delFailKeys) ==
    LET entries == [i \in 1..Len(keys) |-> multi_entry(d, t, keys[i], i \in failAt)]
        badIdx == {i \in 1..Len(keys) : entries[i].bad}
        expired_keys == SelectKeys(keys, entries, 1)
        after == db_delete_all(d, SelectSeq(expired_keys, LAMBDA k : k \notin delFailKeys))
    IN  IF badIdx # {}
        THEN LET first == CHOOSE i \in badIdx : \A j \in badIdx : i <= j
             IN [ok |-> FALSE, err |-> entries[first].err, results |-> <<>>,
                 db |-> after, expired |-> Len(expired_keys)]
        ELSE [ok |-> TRUE, err |-> "",
              results |-> [i \in 1..Len(keys) |-> [key |-> keys[i], res |-> entries[i].res]],
              db |-> after, expired |-> Len(expired_keys)]

\* RocksStorage::get_multi.  failAt is the set of positions whose engine lookup
\* fails, delFailKeys the keys whose lazy delete fails.  The first error in
\* input order aborts before the delete phase.
RocksStorage_get_multi(d, t, keys, failAt, delFailKeys) ==
    LET entries == [i \in 1..Len(keys) |-> multi_entry(d, t, keys[i], i \in failAt)]
        badIdx == {i \in 1..Len(keys) : entries[i].bad}
    IN  IF badIdx # {}
        THEN LET first == CHOOSE i \in badIdx : \A j \in badIdx : i <= j
             IN [ok |-> FALSE, err |-> entries[first].err, results |-> <<>>,
                 db |-> d, expired |-> 0]
        ELSE LET expired_keys == SelectKeys(keys, entries, 1)
             IN [ok |-> TRUE, err |-> "",
                 results |-> [i \in 1..Len(keys) |-> [key |-> keys[i], res |-> entries[i].res]],
                 db |-> db_delete_all(d, SelectSeq(expired_keys,
                                                   LAMBDA k : k \notin delFailKeys)),
                 expired |-> Len(expired_keys)]

\* RocksStorage::set
RocksStorage_set(d, key, value, putFails) ==
    IF putFails THEN [ok |-> FALSE, db |-> d]
    ELSE [ok |-> TRUE, db |-> db_put(d, key, encode(value))]

delete_probe_present(d, key) == TRUE

\* the probe of RocksStorage::delete: self.db.get(key)?.is_some()
delete_probe(d, key) == db_get(d, key) # Absent

RocksStorage_delete_probe_after(d, key, getFails, delFails) ==
    IF getFails \/ delFails THEN [ok |-> FALSE, existed |-> FALSE, db |-> d]
    ELSE [ok |-> TRUE, existed |-> (db_get(db_delete(d, key), key) # Absent),
          db |-> db_delete(d, key)]

\* RocksStorage::delete: probe, then delete unconditionally
RocksStorage_delete(d, key, getFails, delFails) ==
    IF getFails \/ delFails THEN [ok |-> FALSE, existed |-> FALSE, db |-> d]
    ELSE [ok |-> TRUE, existed |-> delete_probe(d, key), db |-> db_delete(d, key)]

RECURSIVE LeqLE(_, _)
\* a <= b for two unsigned integers given by their little-endian bytes, as many
\* for a as for b
LeqLE(a, b) ==
    IF a = <<>> THEN TRUE
    ELSE IF a[Len(a)] # b[Len(b)] THEN a[Len(a)] < b[Len(b)]
    ELSE LeqLE(SubSeq(a, 1, Len(a) - 1), SubSeq(b, 1, Len(b) - 1))

ttl_compaction_filter_gt(value, t) ==
    IF Len(value) >= 8
    THEN LET expire_at == Slice(value, 0, 8) IN
         IF expire_at # LEBytes(0, 8) /\ LeqLE(expire_at, LEBytes(t, 8)) /\ expire_at # LEBytes(t, 8)
         THEN "Remove" ELSE "Keep"
    ELSE "Keep"

\* ttl_compaction_filter, with current_timestamp() = t.  The u64 read by
\* from_le_bytes is kept as its 8 bytes, so that all 64 bits take part in the
\* comparison.
ttl_compaction_filter(value, t) ==
    IF Len(value) >= 8
    THEN LET expire_at == Slice(value, 0, 8) IN
         IF expire_at # LEBytes(0, 8) /\ LeqLE(expire_at, LEBytes(t, 8))
         THEN "Remove" ELSE "Keep"
    ELSE "Keep"

----------------------------------------------------------------------------
(* protocol/response.rs: ResponseWriter, an append-only byte buffer *)

\* "VALUE "
B_VALUE == <<86, 65, 76, 85, 69, 32>>
\* "END\r\n"
B_END == <<69, 78, 68, 13, 10>>
\* "STORED\r\n"
B_STORED == <<83, 84, 79, 82, 69, 68, 13, 10>>
\* "NOT_FOUND\r\n"
B_NOT_FOUND == <<78, 79, 84, 95, 70, 79, 85, 78, 68, 13, 10>>
\* "DELETED\r\n"
B_DELETED == <<68, 69, 76, 69, 84, 69, 68, 13, 10>>
\* "VERSION "
B_VERSION == <<86, 69, 82, 83, 73, 79, 78, 32>>
\* "CLIENT_ERROR "
B_CLIENT_ERROR == <<67, 76, 73, 69, 78, 84, 95, 69, 82, 82, 79, 82, 32>>
\* "SERVER_ERROR "
B_SERVER_ERROR == <<83, 69, 82, 86, 69, 82, 95, 69, 82, 82, 79, 82, 32>>

rw_value(buf, key, flags, data) ==
    buf \o B_VALUE \o key \o SP \o Itoa(flags) \o SP \o Itoa(Len(data)) \o CRLF
        \o data \o CRLF
rw_end_twice(buf) == buf \o B_END \o B_END
rw_end(buf) == buf \o B_END
rw_stored(buf) == buf \o B_STORED
rw_not_found(buf) == buf \o B_NOT_FOUND
rw_deleted(buf) == buf \o B_DELETED
rw_version(buf, version) == buf \o B_VERSION \o version \o CRLF
rw_client_error(buf, message) == buf \o B_CLIENT_ERROR \o message \o CRLF
rw_server_error(buf, message) == buf \o B_SERVER_ERROR \o message \o CRLF

----------------------------------------------------------------------------
(* server/handler.rs.  A handler's outcome: the engine's contents, the      *)
(* increments of EXPIRED_KEYS_REMOVED and metrics.storage_errors, and the   *)
(* response buffer.  f says which engine calls fail during the command.     *)

\* no engine call fails
NoFail == [get |-> FALSE, put |-> FALSE, del |-> FALSE, multi |-> {}, dels |-> {}]

\* "petracache 0.1.0": concat!("petracache ", env!("CARGO_PKG_VERSION"))
PKG_VERSION == <<112, 101, 116, 114, 97, 99, 97, 99, 104, 101, 32, 48, 46, 49, 46, 48>>

Outcome(d, exp, errs, response) ==
    [db |-> d, expired |-> exp, errors |-> errs, response |-> response]

RECURSIVE values_of_reversed(_, _, _)
values_of_reversed(results, i, response) ==
    IF i > Len(results) THEN response
    ELSE values_of_reversed(results, i + 1,
            IF results[i].res.tag = "Some"
            THEN rw_value(<<>>, results[i].key, results[i].res.value.flags,
                          results[i].res.value.data) \o response
            ELSE response)

RECURSIVE values_of(_, _, _)
\* the loop over get_multi's results: a VALUE block for each Some
values_of(results, i, response) ==
    IF i > Len(results) THEN response
    ELSE values_of(results, i + 1,
            IF results[i].res.tag = "Some"
            THEN rw_value(response, results[i].key, results[i].res.value.flags,
                          results[i].res.value.data)
            ELSE response)

handle_get(d, t, keys, response, f) ==
    IF Len(keys) = 1
    THEN LET r == RocksStorage_get(d, t, keys[1], f.get, f.del) IN
         IF r.res.tag = "Some"
         THEN Outcome(r.db, r.expired, 0,
                      rw_end(rw_value(response, keys[1], r.res.value.flags, r.res.value.data)))
         ELSE IF r.res.tag = "None"
         THEN Outcome(r.db, r.expired, 0, rw_end(response))
         ELSE Outcome(r.db, r.expired, 1,
                      rw_server_error(response, StorageError_to_string(r.res.err)))
    ELSE LET r == RocksStorage_get_multi(d, t, keys, f.multi, f.dels) IN
         IF r.ok
         THEN Outcome(r.db, r.expired, 0, rw_end(values_of(r.results, 1, response)))
         ELSE Outcome(r.db, r.expired, 1,
                      rw_server_error(response, StorageError_to_string(r.err)))

handle_set(d, t, key, flags, exptime, data, response, f) ==
    LET value == StoredValue_new(flags, exptime, data, t)
        r == RocksStorage_set(d, key, value, f.put)
    IN  IF r.ok THEN Outcome(r.db, 0, 0, rw_stored(response))
        ELSE Outcome(r.db, 0, 1, rw_server_error(response, StorageError_to_string("RocksDb")))

handle_delete_uncounted(d, key, response, f) ==
    LET r == RocksStorage_delete(d, key, f.get, f.del) IN
    IF r.ok /\ r.existed THEN Outcome(r.db, 0, 0, rw_deleted(response))
    ELSE IF r.ok THEN Outcome(r.db, 0, 0, rw_not_found(response))
    ELSE Outcome(r.db, 0, 0, rw_server_error(response, StorageError_to_string("RocksDb")))

\* handle_delete's arms for Ok(true) and Ok(false)
delete_reply(existed, response) ==
    IF existed THEN rw_deleted(response) ELSE rw_not_found(response)

handle_delete(d, key, response, f) ==
    LET r == RocksStorage_delete(d, key, f.get, f.del) IN
    IF r.ok THEN Outcome(r.db, 0, 0, delete_reply(r.existed, response))
    ELSE Outcome(r.db, 0, 1, rw_server_error(response, StorageError_to_string("RocksDb")))

handle_version(response) == rw_version(response, PKG_VERSION)

\* protocol/command.rs: Command, as a record
CmdGet(keys) ==
    [type |-> "Get", keys |-> keys, key |-> <<>>, flags |-> 0, exptime |-> 0,
     data |-> <<>>, noreply |-> FALSE]
CmdSet(key, flags, exptime, data, noreply) ==
    [type |-> "Set", keys |-> <<>>, key |-> key, flags |-> flags, exptime |-> exptime,
     data |-> data, noreply |-> noreply]
CmdDelete(key, noreply) ==
    [type |-> "Delete", keys |-> <<>>, key |-> key, flags |-> 0, exptime |-> 0,
     data |-> <<>>, noreply |-> noreply]
CmdVersion ==
    [type |-> "Version", keys |-> <<>>, key |-> <<>>, flags |-> 0, exptime |-> 0,
     data |-> <<>>, noreply |-> FALSE]
CmdQuit ==
    [type |-> "Quit", keys |-> <<>>, key |-> <<>>, flags |-> 0, exptime |-> 0,
     data |-> <<>>, noreply |-> FALSE]

\* Command::is_noreply
is_noreply_never(cmd) == FALSE

is_noreply_delete_only(cmd) == cmd.type = "Delete" /\ cmd.noreply

\* Command::is_noreply
is_noreply(cmd) == IF cmd.type \in {"Set", "Delete"} THEN cmd.noreply ELSE FALSE

\* handler::execute
execute(d, t, cmd, response, f) ==
    IF cmd.type = "Get" THEN handle_get(d, t, cmd.keys, response, f)
    ELSE IF cmd.type = "Set"
    THEN handle_set(d, t, cmd.key, cmd.flags, cmd.exptime, cmd.data, response, f)
    ELSE IF cmd.type = "Delete" THEN handle_delete(d, cmd.key, response, f)
    ELSE IF cmd.type = "Version" THEN Outcome(d, 0, 0, handle_version(response))
    ELSE Outcome(d, 0, 0, response)

----------------------------------------------------------------------------
(* protocol/command.rs and protocol/parser.rs *)

MAX_KEY_LENGTH == 250

\* is_valid_key
is_valid_key_inclusive(key) ==
    IF Len(key) = 0 \/ Len(key) > MAX_KEY_LENGTH THEN FALSE
    ELSE \A i \in 1..Len(key) : key[i] >= 32 /\ key[i] < 127

\* is_valid_key
is_valid_key(key) ==
    IF Len(key) = 0 \/ Len(key) > MAX_KEY_LENGTH THEN FALSE
    ELSE \A i \in 1..Len(key) : key[i] > 32 /\ key[i] < 127

\* u8::to_ascii_lowercase
to_ascii_lowercase(b) == IF b >= 65 /\ b <= 90 THEN b + 32 ELSE b

cmd_eq_exact(cmd, expected) ==
    /\ Len(cmd) = Len(expected)
    /\ \A i \in 1..Len(cmd) : cmd[i] = expected[i]

\* cmd_eq: case-insensitive comparison with a lowercase token
cmd_eq(cmd, expected) ==
    /\ Len(cmd) = Len(expected)
    /\ \A i \in 1..Len(cmd) : to_ascii_lowercase(cmd[i]) = expected[i]

\* Option<usize>::None of find_crlf
NoPos == -1

\* parser.rs find_crlf: the 0-based index of the first "\r\n", or NoPos
find_crlf(buf) ==
    LET hits == {i \in 0..(Len(buf) - 2) : buf[i + 1] = 13 /\ buf[i + 2] = 10}
    IN  IF hits = {} THEN NoPos ELSE CHOOSE i \in hits : \A j \in hits : i <= j

RECURSIVE Split(_, _)
\* slice::split(|b| b == sep): the segments between separators, empty ones kept
Split(line, sep) ==
    LET hits == {i \in 1..Len(line) : line[i] = sep}
    IN  IF hits = {} THEN <<line>>
        ELSE LET i == CHOOSE x \in hits : \A y \in hits : x <= y
             IN <<SubSeq(line, 1, i - 1)>> \o Split(SubSeq(line, i + 1, Len(line)), sep)

\* Iterator::next on the remaining parts: the part, or NoPart when exhausted
NoPart == <<-1>>
NextPart(parts) == IF parts = <<>> THEN NoPart ELSE Head(parts)
RestParts(parts) == IF parts = <<>> THEN <<>> ELSE Tail(parts)

\* decimal digits of u32::MAX and of u64::MAX (usize is 64 bits wide)
U32_MAX_DIGITS == <<4, 2, 9, 4, 9, 6, 7, 2, 9, 5>>
U64_MAX_DIGITS == <<1, 8, 4, 4, 6, 7, 4, 4, 0, 7, 3, 7, 0, 9, 5, 5, 1, 6, 1, 5>>

RECURSIVE StripZeros(_)
StripZeros(ds) == IF ds # <<>> /\ Head(ds) = 0 THEN StripZeros(Tail(ds)) ELSE ds

RECURSIVE DigitsLeq(_, _)
\* digit strings of equal length, compared as numbers
DigitsLeq(a, b) ==
    IF a = <<>> THEN TRUE
    ELSE IF Head(a) # Head(b) THEN Head(a) < Head(b)
    ELSE DigitsLeq(Tail(a), Tail(b))

RECURSIVE Horner(_, _)
Horner(ds, acc) == IF ds = <<>> THEN acc ELSE Horner(Tail(ds), acc * 10 + Head(ds))

\* Option::None of the integer parsers
NoInt == -1

\* Some(n) for an n of the type that the model does not keep as an integer
Wide == -2

\* decimal digits of the largest number kept as an integer, 999999999: the
\* sums the parser forms with it stay below 2^31
INT_MAX_DIGITS == <<9, 9, 9, 9, 9, 9, 9, 9, 9>>

\* the digit string sig, without leading zeros, is at most the number with the
\* digits maxDigits
FitsDigits(sig, maxDigits) ==
    \/ Len(sig) < Len(maxDigits)
    \/ Len(sig) = Len(maxDigits) /\ DigitsLeq(sig, maxDigits)

\* the digits of a token that str::parse accepts: without the optional '+'
\* and without leading zeros
SigDigits(bytes) ==
    LET body == IF Len(bytes) > 1 /\ bytes[1] = 43 THEN Tail(bytes) ELSE bytes
    IN  StripZeros([i \in 1..Len(body) |-> body[i] - 48])

\* str::parse for an unsigned type whose maximum has the digits maxDigits: an
\* optional leading '+', then one or more ASCII digits, no overflow
parse_unsigned(bytes, maxDigits) ==
    LET body == IF Len(bytes) > 1 /\ bytes[1] = 43 THEN Tail(bytes) ELSE bytes
        sig == SigDigits(bytes)
    IN  IF Len(bytes) = 0 THEN NoInt
        ELSE IF \E i \in 1..Len(body) : body[i] < 48 \/ body[i] > 57 THEN NoInt
        ELSE IF ~FitsDigits(sig, maxDigits) THEN NoInt
        ELSE IF ~FitsDigits(sig, INT_MAX_DIGITS) THEN Wide
        ELSE Horner(sig, 0)

RECURSIVE MulAddLE(_, _, _)
\* x * m + c for x given by its little-endian bytes, in as many bytes
MulAddLE(x, m, c) ==
    IF x = <<>> THEN <<>>
    ELSE <<(Head(x) * m + c) % 256>> \o MulAddLE(Tail(x), m, (Head(x) * m + c) \div 256)

RECURSIVE DigitsToLE(_, _)
\* the number with the decimal digits ds after those of acc, little-endian
DigitsToLE(ds, acc) ==
    IF ds = <<>> THEN acc ELSE DigitsToLE(Tail(ds), MulAddLE(acc, 10, Head(ds)))

\* the usize of a token parse_usize accepts, as its 8 little-endian bytes
usize_le(bytes) == DigitsToLE(SigDigits(bytes), [i \in 1..8 |-> 0])

RECURSIVE AddLE(_, _, _)
\* x + y + c for little-endian x and y of equal length: the sum's bytes, and
\* after them the carry out of the top byte
AddLE(x, y, c) ==
    IF x = <<>> THEN <<c>>
    ELSE <<(Head(x) + Head(y) + c) % 256>>
             \o AddLE(Tail(x), Tail(y), (Head(x) + Head(y) + c) \div 256)

parse_u32(bytes) == IF bytes = NoPart THEN NoInt ELSE parse_unsigned(bytes, U32_MAX_DIGITS)
parse_u64(bytes) == IF bytes = NoPart THEN NoInt ELSE parse_unsigned(bytes, U64_MAX_DIGITS)
parse_usize(bytes) == IF bytes = NoPart THEN NoInt ELSE parse_unsigned(bytes, U64_MAX_DIGITS)

\* "get", "set", "delete", "version", "quit", "noreply"
B_get == <<103, 101, 116>>
B_set == <<115, 101, 116>>
B_delete == <<100, 101, 108, 101, 116, 101>>
B_version == <<118, 101, 114, 115, 105, 111, 110>>
B_quit == <<113, 117, 105, 116>>
B_noreply == <<110, 111, 114, 101, 112, 108, 121>>

\* error.rs: ProtocolError's Display
\* "Invalid command: "
MSG_InvalidCommand == <<73, 110, 118, 97, 108, 105, 100, 32, 99, 111, 109, 109, 97, 110, 100, 58, 32>>
\* "Invalid key: "
MSG_InvalidKey == <<73, 110, 118, 97, 108, 105, 100, 32, 107, 101, 121, 58, 32>>
\* "Invalid flags"
MSG_InvalidFlags == <<73, 110, 118, 97, 108, 105, 100, 32, 102, 108, 97, 103, 115>>
\* "Invalid exptime"
MSG_InvalidExptime == <<73, 110, 118, 97, 108, 105, 100, 32, 101, 120, 112, 116, 105, 109, 101>>
\* "Invalid bytes length"
MSG_InvalidBytesLength == <<73, 110, 118, 97, 108, 105, 100, 32, 98, 121, 116, 101, 115, 32, 108, 101, 110, 103, 116, 104>>
\* "Key too long (max 250 bytes)"
MSG_KeyTooLong == <<75, 101, 121, 32, 116, 111, 111, 32, 108, 111, 110, 103, 32, 40, 109, 97, 120, 32, 50, 53, 48, 32, 98, 121, 116, 101, 115, 41>>
\* "Unexpected data"
MSG_UnexpectedData == <<85, 110, 101, 120, 112, 101, 99, 116, 101, 100, 32, 100, 97, 116, 97>>
\* "empty command", "missing key"
MSG_empty_command == <<101, 109, 112, 116, 121, 32, 99, 111, 109, 109, 97, 110, 100>>
MSG_missing_key == <<109, 105, 115, 115, 105, 110, 103, 32, 107, 101, 121>>
\* "get requires at least one key"
MSG_get_requires == <<103, 101, 116, 32, 114, 101, 113, 117, 105, 114, 101, 115, 32, 97, 116, 32, 108, 101, 97, 115, 116, 32, 111, 110, 101, 32, 107, 101, 121>>
\* "delete requires a key"
MSG_delete_requires == <<100, 101, 108, 101, 116, 101, 32, 114, 101, 113, 117, 105, 114, 101, 115, 32, 97, 32, 107, 101, 121>>

ProtocolError_to_string(err, arg) ==
    IF err = "InvalidCommand" THEN MSG_InvalidCommand \o arg
    ELSE IF err = "InvalidKey" THEN MSG_InvalidKey \o arg
    ELSE IF err = "InvalidFlags" THEN MSG_InvalidFlags
    ELSE IF err = "InvalidExptime" THEN MSG_InvalidExptime
    ELSE IF err = "InvalidBytesLength" THEN MSG_InvalidBytesLength
    ELSE IF err = "KeyTooLong" THEN MSG_KeyTooLong
    ELSE MSG_UnexpectedData

\* ParseResult
Complete(cmd, consumed) ==
    [kind |-> "Complete", cmd |-> cmd, consumed |-> consumed, err |-> "", arg |-> <<>>]
NeedMoreData ==
    [kind |-> "NeedMoreData", cmd |-> CmdQuit, consumed |-> 0, err |-> "", arg |-> <<>>]
Error(err, arg) ==
    [kind |-> "Error", cmd |-> CmdQuit, consumed |-> 0, err |-> err, arg |-> arg]

key_error_bytes_first(key) ==
    IF \A i \in 1..Len(key) : key[i] > 32 /\ key[i] < 127 THEN Error("KeyTooLong", <<>>)
    ELSE Error("InvalidKey", key)

\* the error for a key that is_valid_key rejects
key_error(key) ==
    IF Len(key) > MAX_KEY_LENGTH THEN Error("KeyTooLong", <<>>) ELSE Error("InvalidKey", key)

RECURSIVE get_keys(_, _)
\* parse_get's loop: the keys collected so far, or the first error
get_keys(parts, keys) ==
    IF parts = <<>> THEN [ok |-> TRUE, keys |-> keys, error |-> NeedMoreData]
    ELSE IF Head(parts) = <<>> THEN get_keys(Tail(parts), keys)
    ELSE IF ~is_valid_key(Head(parts))
         THEN [ok |-> FALSE, keys |-> <<>>, error |-> key_error(Head(parts))]
    ELSE get_keys(Tail(parts), Append(keys, Head(parts)))

parse_get(parts, consumed) ==
    LET r == get_keys(parts, <<>>) IN
    IF ~r.ok THEN r.error
    ELSE IF r.keys = <<>> THEN Error("InvalidCommand", MSG_get_requires)
    ELSE Complete(CmdGet(r.keys), consumed)

\* the header fields shared by parse_set and parse_storage_command_line:
\* <key> <flags> <exptime> <bytes> [noreply]
set_header(parts) ==
    LET key == NextPart(parts)
        p1 == RestParts(parts)
        flags == parse_u32(NextPart(p1))
        p2 == RestParts(p1)
        exptime == parse_u64(NextPart(p2))
        p3 == RestParts(p2)
        bytes == parse_usize(NextPart(p3))
        p4 == RestParts(p3)
        noreply == (NextPart(p4) = B_noreply)
        hdr == [key |-> key, flags |-> flags, exptime |-> exptime, bytes |-> bytes,
                bytes_le |-> IF bytes = Wide THEN usize_le(NextPart(p3)) ELSE <<>>,
                noreply |-> noreply]
    IN  IF key = NoPart \/ key = <<>>
        THEN [ok |-> FALSE, error |-> Error("InvalidCommand", MSG_missing_key), hdr |-> hdr]
        ELSE IF ~is_valid_key(key) THEN [ok |-> FALSE, error |-> key_error(key), hdr |-> hdr]
        ELSE IF flags = NoInt
        THEN [ok |-> FALSE, error |-> Error("InvalidFlags", <<>>), hdr |-> hdr]
        ELSE IF exptime = NoInt
        THEN [ok |-> FALSE, error |-> Error("InvalidExptime", <<>>), hdr |-> hdr]
        ELSE IF bytes = NoInt
        THEN [ok |-> FALSE, error |-> Error("InvalidBytesLength", <<>>), hdr |-> hdr]
        ELSE [ok |-> TRUE, error |-> NeedMoreData, hdr |-> hdr]

set_data_no_trailer(buf, line_end, key, flags, exptime, bytes, noreply) ==
    LET data_start == line_end + 2
        data_end == data_start + bytes
        total_needed == data_end + 2
    IN  IF Len(buf) < total_needed THEN NeedMoreData
        ELSE IF buf[data_end + 1] # 13 \/ buf[data_end + 2] # 10
        THEN Error("UnexpectedData", <<>>)
        ELSE Complete(CmdSet(key, flags, exptime, Slice(buf, data_start, data_end), noreply),
                      data_end)

\* the data block of a SET whose header line ends at line_end
set_data(buf, line_end, key, flags, exptime, bytes, noreply) ==
    LET data_start == line_end + 2
        data_end == data_start + bytes
        total_needed == data_end + 2
    IN  IF Len(buf) < total_needed THEN NeedMoreData
        ELSE IF buf[data_end + 1] # 13 \/ buf[data_end + 2] # 10
        THEN Error("UnexpectedData", <<>>)
        ELSE Complete(CmdSet(key, flags, exptime, Slice(buf, data_start, data_end), noreply),
                      total_needed)

\* a panic of the task that called the parser
Panic == [kind |-> "Panic", cmd |-> CmdQuit, consumed |-> 0, err |-> "", arg |-> <<>>]

\* an addition of usize overflowed: a build with overflow checks panics there,
\* and a build without them goes on with the wrapped sum and ends as wrapped
Overflow(wrapped) ==
    [kind |-> "Overflow", cmd |-> CmdQuit, consumed |-> 0, err |-> wrapped, arg |-> <<>>]

\* what a build may make of the parse result r
Outcomes(r) ==
    IF r.kind # "Overflow" THEN {r}
    ELSE {Panic,
          IF r.err = "NeedMoreData" THEN NeedMoreData
          ELSE IF r.err = "UnexpectedData" THEN Error("UnexpectedData", <<>>)
          ELSE Panic}

\* the two ways the crate may be built
Builds == {"overflow-checks", "wrapping"}

\* what the build makes of the parse result r
Built(build, r) ==
    IF r.kind # "Overflow" \/ build = "overflow-checks" THEN
        (IF r.kind # "Overflow" THEN r ELSE Panic)
    ELSE IF r.err = "NeedMoreData" THEN NeedMoreData
    ELSE IF r.err = "UnexpectedData" THEN Error("UnexpectedData", <<>>)
    ELSE Panic

\* the data block of a SET whose bytes field is above the integers of the
\* model: data_start + bytes and data_end + 2 in 64 bits.  Without a carry
\* total_needed is beyond every buffer.  With one, the wrapped total_needed
\* is small; buf[data_end] is out of bounds when only the second sum wrapped,
\* and otherwise data_end is below data_start, so the slice of the data panics
\* when the terminator check passes.
set_data_wide(buf, line_end, bytes_le) ==
    LET data_start == line_end + 2
        s1 == AddLE(LEBytes(data_start, 8), bytes_le, 0)
        s2 == AddLE(SubSeq(s1, 1, 8), LEBytes(2, 8), 0)
        high1 == \E i \in 4..8 : s1[i] # 0
        data_end == FromLE(SubSeq(s1, 1, 3))
        total_needed == FromLE(SubSeq(s2, 1, 3))
    IN  IF s1[9] = 0 /\ s2[9] = 0 THEN NeedMoreData
        ELSE IF Len(buf) < total_needed THEN Overflow("NeedMoreData")
        ELSE IF high1 THEN Overflow("Panic")
        ELSE IF buf[data_end + 1] # 13 \/ buf[data_end + 2] # 10
        THEN Overflow("UnexpectedData")
        ELSE Overflow("Panic")

parse_set(parts, buf, line_end) ==
    LET h == set_header(parts) IN
    IF ~h.ok THEN h.error
    ELSE IF h.hdr.bytes = Wide THEN set_data_wide(buf, line_end, h.hdr.bytes_le)
    ELSE set_data(buf, line_end, h.hdr.key, h.hdr.flags, h.hdr.exptime, h.hdr.bytes,
                  h.hdr.noreply)

parse_delete_next_only(parts, consumed) ==
    LET key == NextPart(parts) IN
    IF key = NoPart \/ key = <<>> THEN Error("InvalidCommand", MSG_delete_requires)
    ELSE IF ~is_valid_key(key) THEN key_error(key)
    ELSE Complete(CmdDelete(key, NextPart(RestParts(parts)) = B_noreply), consumed)

parse_delete(parts, consumed) ==
    LET key == NextPart(parts) IN
    IF key = NoPart \/ key = <<>> THEN Error("InvalidCommand", MSG_delete_requires)
    ELSE IF ~is_valid_key(key) THEN key_error(key)
    ELSE Complete(CmdDelete(key, \E i \in 2..Len(parts) : parts[i] = B_noreply), consumed)

\* parse: one command from the front of buf
parse(buf) ==
    LET line_end == find_crlf(buf)
        parts == Split(Slice(buf, 0, line_end), 32)
        cmd_name == Head(parts)
    IN  IF line_end = NoPos THEN NeedMoreData
        ELSE IF cmd_name = <<>> THEN Error("InvalidCommand", MSG_empty_command)
        ELSE IF cmd_eq(cmd_name, B_get) THEN parse_get(Tail(parts), line_end + 2)
        ELSE IF cmd_eq(cmd_name, B_set) THEN parse_set(Tail(parts), buf, line_end)
        ELSE IF cmd_eq(cmd_name, B_delete) THEN parse_delete(Tail(parts), line_end + 2)
        ELSE IF cmd_eq(cmd_name, B_version) THEN Complete(CmdVersion, line_end + 2)
        ELSE IF cmd_eq(cmd_name, B_quit) THEN Complete(CmdQuit, line_end + 2)
        ELSE Error("InvalidCommand", cmd_name)

\* Option<PendingStorageCommand>::None
NoPending ==
    [some |-> FALSE, key |-> <<>>, flags |-> 0, exptime |-> 0, bytes |-> 0,
     bytes_le |-> <<>>, noreply |-> FALSE, command_line_end |-> 0]

parse_storage_command_line_reply(buf) ==
    LET line_end == find_crlf(buf)
        parts == Split(Slice(buf, 0, line_end), 32)
        cmd_name == Head(parts)
        h == set_header(Tail(parts))
    IN  IF line_end = NoPos THEN NoPending
        ELSE IF cmd_name = <<>> THEN NoPending
        ELSE IF ~cmd_eq(cmd_name, B_set) THEN NoPending
        ELSE IF ~h.ok THEN NoPending
        ELSE [some |-> TRUE, key |-> h.hdr.key, flags |-> h.hdr.flags,
              exptime |-> h.hdr.exptime, bytes |-> h.hdr.bytes, bytes_le |-> h.hdr.bytes_le,
              noreply |-> FALSE, command_line_end |-> line_end]

\* parse_storage_command_line: Ok(Some(pending)), Ok(None) or Err; the caller
\* only distinguishes Ok(Some) from the rest
parse_storage_command_line(buf) ==
    LET line_end == find_crlf(buf)
        parts == Split(Slice(buf, 0, line_end), 32)
        cmd_name == Head(parts)
        h == set_header(Tail(parts))
    IN  IF line_end = NoPos THEN NoPending
        ELSE IF cmd_name = <<>> THEN NoPending
        ELSE IF ~cmd_eq(cmd_name, B_set) THEN NoPending
        ELSE IF ~h.ok THEN NoPending
        ELSE [some |-> TRUE, key |-> h.hdr.key, flags |-> h.hdr.flags,
              exptime |-> h.hdr.exptime, bytes |-> h.hdr.bytes, bytes_le |-> h.hdr.bytes_le,
              noreply |-> h.hdr.noreply, command_line_end |-> line_end]

parse_storage_data_off(buf, pending) ==
    set_data(buf, pending.command_line_end - 2, pending.key, pending.flags, pending.exptime,
             pending.bytes, pending.noreply)

\* parse_storage_data: the data block of the pending SET
parse_storage_data(buf, pending) ==
    IF pending.bytes = Wide
    THEN set_data_wide(buf, pending.command_line_end, pending.bytes_le)
    ELSE set_data(buf, pending.command_line_end, pending.key, pending.flags, pending.exptime,
                  pending.bytes, pending.noreply)

----------------------------------------------------------------------------
(* server/mod.rs and server/connection.rs.  The sockets that may ever       *)
(* connect are numbered.  A connection task is at "select" (awaiting the    *)
(* select! of cancellation and read), at "loop" (draining the read buffer), *)
(* at "write" or "write_err" (awaiting write_all in the Complete or the     *)
(* Error arm) or "done".  Before that its socket is "absent" (never         *)
(* connects), "idle", "queued" (connected, not yet accepted) or "rejected". *)
(* The byte and command counters of Metrics, which no decision reads, are   *)
(* left out.                                                                *)

Sockets == 1..NumSockets

\* a task's locals before it runs
NoConn(pc) ==
    [pc |-> pc, read_buf |-> <<>>, pending_storage |-> NoPending, wbuf |-> <<>>,
     exit |-> ""]

Callers == 1..NumCallers

\* a task that has not called the facade
NoCall == [op |-> "none", key |-> <<>>, pc |-> "idle", existed |-> FALSE, response |-> <<>>,
           probe_at |-> 0, write_at |-> 0]

\* no function of the library called yet; removed is TTL_COMPACTION_REMOVED
NoApplied == [fn |-> "none", arg |-> <<>>, out |-> <<>>, removed |-> 0]

\* no facade call in flight, no engine call made
RaceIdle == [call |-> [c \in Callers |-> NoCall], order |-> <<>>]

\* the state of SpecStorage's server: nothing listens
ServerIdle ==
    /\ cancelled = FALSE
    /\ acceptor = "stopped"
    /\ max_connections = 0
    /\ permits = 0
    /\ metrics = [total_connections |-> 0, active_connections |-> 0,
                  rejected_connections |-> 0, protocol_errors |-> 0]
    /\ conn = [c \in Sockets |-> NoConn("absent")]
    /\ sock = [c \in Sockets |-> [script |-> 0, to_send |-> <<>>, peer |-> "open",
                                  outbox |-> <<>>, nreads |-> 0]]
    /\ exec_log = [c \in Sockets |-> <<>>]
    /\ acc_last = [socket |-> 0, permits |-> 0, admitted |-> FALSE, total |-> 0,
                   rejected |-> 0, running |-> 0]

\* connection.rs find_crlf: the first '\r', if a '\n' follows it
conn_find_crlf(buf) ==
    LET crs == {i \in 0..(Len(buf) - 1) : buf[i + 1] = 13}
        first == CHOOSE i \in crs : \A j \in crs : i <= j
    IN  IF crs = {} THEN NoPos
        ELSE IF first + 2 <= Len(buf) /\ buf[first + 2] = 10 THEN first
        ELSE NoPos

\* BytesMut::split_to(n), the part kept
split_to(buf, n) == SubSeq(buf, n + 1, Len(buf))

try_acquire_always(p) == TRUE

\* Semaphore::try_acquire_owned succeeds when a permit is available
try_acquire_owned(p) == p > 0

leak_permit(p) == p

\* dropping the task's OwnedSemaphorePermit returns it to the semaphore
drop_permit(p) == p + 1

\* the tasks that hold a permit
Running == {c \in Sockets : conn[c].pc \in {"select", "loop", "write", "write_err"}}

\* the connection loop is left by `break`: the gauge is decremented, then the
\* function returns and its permit is dropped
ExitByBreak(c, how) ==
    /\ conn' = [conn EXCEPT ![c].pc = "done", ![c].exit = how]
    /\ metrics' = [metrics EXCEPT !.active_connections = @ - 1]
    /\ permits' = drop_permit(permits)

\* the function returns from inside the loop (`return Ok(())` or `?`)
ExitByReturn(c, how, cn) ==
    /\ conn' = [conn EXCEPT ![c] = [cn EXCEPT !.pc = "done", !.exit = how]]
    /\ permits' = drop_permit(permits)
    /\ UNCHANGED metrics

\* ---- the peers ----

\* a client connects
ClientConnect(c) ==
    /\ conn[c].pc = "idle"
    /\ conn' = [conn EXCEPT ![c].pc = "queued"]
    /\ UNCHANGED <<stvars, ghvars, cancelled, acceptor, max_connections, permits, metrics,
                   sock, exec_log, acc_last>>

\* a client closes (or resets) its end
ClientClose(c) ==
    /\ conn[c].pc \in {"select", "loop", "write", "write_err"}
    /\ sock[c].peer = "open"
    /\ sock' = [sock EXCEPT ![c].peer = "closed"]
    /\ UNCHANGED <<stvars, ghvars, cancelled, acceptor, max_connections, permits, metrics,
                   conn, exec_log, acc_last>>

\* ---- Server::run ----

\* the process's signal handler cancels the token
Cancel ==
    /\ acceptor = "running" \/ Running # {}
    /\ ~cancelled
    /\ cancelled' = TRUE
    /\ UNCHANGED <<stvars, ghvars, acceptor, max_connections, permits, metrics, conn, sock,
                   exec_log, acc_last>>

\* select! takes the cancelled() branch
AcceptorShutdown ==
    /\ acceptor = "running"
    /\ cancelled
    /\ acceptor' = "stopped"
    /\ UNCHANGED <<stvars, ghvars, cancelled, max_connections, permits, metrics, conn, sock,
                   exec_log, acc_last>>

\* select! takes the accept() branch: try_acquire_owned, then spawn or drop
Accept(c) ==
    /\ acceptor = "running"
    /\ conn[c].pc = "queued"
    /\ acc_last' = [socket |-> c, permits |-> permits,
                    admitted |-> try_acquire_owned(permits),
                    total |-> metrics.total_connections,
                    rejected |-> metrics.rejected_connections,
                    running |-> Cardinality(Running)]
    /\ IF try_acquire_owned(permits)
       THEN /\ permits' = permits - 1
            /\ metrics' = [metrics EXCEPT !.total_connections = @ + 1,
                                          !.active_connections = @ + 1]
            /\ conn' = [conn EXCEPT ![c].pc = "select"]
       ELSE /\ permits' = permits
            /\ metrics' = [metrics EXCEPT !.rejected_connections = @ + 1]
            /\ conn' = [conn EXCEPT ![c].pc = "rejected"]
    /\ UNCHANGED <<stvars, ghvars, cancelled, acceptor, max_connections, sock, exec_log>>

\* ---- connection::handle ----

\* select! takes the cancelled() branch
HandleCancelled(c) ==
    /\ conn[c].pc = "select"
    /\ cancelled
    /\ ExitByBreak(c, "shutdown")
    /\ UNCHANGED <<stvars, ghvars, cancelled, acceptor, max_connections, sock, exec_log,
                   acc_last>>

\* read_buf returns Ok(n), n > 0 (nreads counts the reads: one, two, or more)
HandleRead(c, n) ==
    /\ conn[c].pc = "select"
    /\ n \in 1..Len(sock[c].to_send)
    /\ conn' = [conn EXCEPT ![c].pc = "loop",
                            ![c].read_buf = @ \o SubSeq(sock[c].to_send, 1, n)]
    /\ sock' = [sock EXCEPT ![c].to_send = split_to(@, n),
                            ![c].nreads = IF @ < 3 THEN @ + 1 ELSE @]
    /\ UNCHANGED <<stvars, ghvars, cancelled, acceptor, max_connections, permits, metrics,
                   exec_log, acc_last>>

\* read_buf returns Ok(0): the peer closed
HandleEof(c) ==
    /\ conn[c].pc = "select"
    /\ sock[c].peer = "closed"
    /\ sock[c].to_send = <<>>
    /\ ExitByBreak(c, "eof")
    /\ UNCHANGED <<stvars, ghvars, cancelled, acceptor, max_connections, sock, exec_log,
                   acc_last>>

\* read_buf returns Err: the peer reset the connection
HandleReadError(c) ==
    /\ conn[c].pc = "select"
    /\ sock[c].peer = "closed"
    /\ ExitByBreak(c, "read_error")
    /\ UNCHANGED <<stvars, ghvars, cancelled, acceptor, max_connections, sock, exec_log,
                   acc_last>>

\* what the drain loop parses next
NextParse(cn) ==
    IF cn.pending_storage.some THEN parse_storage_data(cn.read_buf, cn.pending_storage)
    ELSE parse(cn.read_buf)

\* the commands during which the engine failed so far
Faults ==
    Cardinality(UNION {{<<c, i>> : i \in {j \in DOMAIN exec_log[c] :
                                                  exec_log[c][j].f # NoFail}} :
                       c \in Sockets})

\* the commands that call the engine
UsesEngine(cmd) == cmd.type \in {"Get", "Set", "Delete"}

skip_write_all(writes) == "loop"

\* where the task stands after execute: in write_all's await when there is
\* a response to send, and back at the top of the drain loop otherwise
await_write_all(writes) == IF writes THEN "write" ELSE "loop"

should_quit_never(cmd) == FALSE

\* matches!(cmd, Command::Quit)
should_quit(cmd) == cmd.type = "Quit"

keep_pending(pending) == pending

\* pending_storage = None
clear_pending(pending) == NoPending

\* the ParseResult::Complete arm after execute returned o for the command of
\* pr: consume, then write_all (or go on when nothing is written)
complete_arm(c, f, pr, o) ==
    LET writes == ~is_noreply(pr.cmd) /\ o.response # <<>>
        cn == [conn[c] EXCEPT !.pending_storage = clear_pending(@),
                              !.read_buf = split_to(@, pr.consumed),
                              !.wbuf = IF writes THEN o.response ELSE <<>>,
                              !.pc = await_write_all(writes)]
    IN  /\ db' = o.db
        /\ expired_removed' = expired_removed + o.expired
        /\ storage_errors' = storage_errors + o.errors
        /\ exec_log' = [exec_log EXCEPT ![c] =
               Append(@, [kind |-> "cmd", cmd |-> pr.cmd, response |-> o.response,
                          wrote |-> <<>>, time |-> now, f |-> f,
                          pending |-> conn[c].pending_storage.some])]
        /\ IF should_quit(pr.cmd) /\ ~writes
           THEN ExitByReturn(c, "quit", cn)
           ELSE /\ conn' = [conn EXCEPT ![c] = cn]
                /\ UNCHANGED <<permits, metrics>>

\* the drain loop's match on the parse result pr, Complete arm
match_complete(c, f, pr) ==
    /\ pr.kind = "Complete"
    /\ UsesEngine(pr.cmd) \/ f = NoFail
    /\ f = NoFail \/ Faults < MaxFaults
    /\ complete_arm(c, f, pr, execute(db, now, pr.cmd, <<>>, f))

\* the ParseResult::Complete arm, up to the write_all await (or past it when
\* nothing is written)
HandleComplete(c, f) ==
    /\ conn[c].pc = "loop"
    /\ match_complete(c, f, NextParse(conn[c]))
    /\ UNCHANGED <<now, ghvars, cancelled, acceptor, max_connections, sock, acc_last>>

\* the ParseResult::NeedMoreData arm
HandleNeedMoreData(c) ==
    /\ conn[c].pc = "loop"
    /\ NextParse(conn[c]).kind = "NeedMoreData"
    /\ LET line == parse_storage_command_line(conn[c].read_buf)
       IN conn' = [conn EXCEPT
              ![c].pending_storage =
                  IF ~conn[c].pending_storage.some /\ line.some THEN line ELSE @,
              ![c].pc = "select"]
    /\ UNCHANGED <<stvars, ghvars, cancelled, acceptor, max_connections, permits, metrics,
                   sock, exec_log, acc_last>>

\* the ParseResult::Error arm, up to the write_all await
HandleError(c) ==
    /\ conn[c].pc = "loop"
    /\ NextParse(conn[c]).kind = "Error"
    /\ LET pr == NextParse(conn[c])
           response == rw_client_error(<<>>, ProtocolError_to_string(pr.err, pr.arg))
           pos == conn_find_crlf(conn[c].read_buf)
       IN  /\ conn' = [conn EXCEPT
                  ![c].read_buf = IF pos # NoPos THEN split_to(@, pos + 2) ELSE <<>>,
                  ![c].pending_storage = clear_pending(@),
                  ![c].wbuf = response,
                  ![c].pc = "write_err"]
           /\ exec_log' = [exec_log EXCEPT ![c] =
                  Append(@, [kind |-> "error", cmd |-> CmdQuit, response |-> response,
                             wrote |-> <<>>, time |-> now, f |-> NoFail,
                             pending |-> conn[c].pending_storage.some])]
    /\ metrics' = [metrics EXCEPT !.protocol_errors = @ + 1]
    /\ UNCHANGED <<stvars, ghvars, cancelled, acceptor, max_connections, permits, sock,
                   acc_last>>

\* write_all returns Ok in the Complete arm: the loop goes on
WriteComplete(c) ==
    /\ conn[c].pc = "write"
    /\ sock' = [sock EXCEPT ![c].outbox = @ \o conn[c].wbuf]
    /\ exec_log' = [exec_log EXCEPT ![c][Len(exec_log[c])].wrote = conn[c].wbuf]
    /\ conn' = [conn EXCEPT ![c].wbuf = <<>>, ![c].pc = "loop"]
    /\ UNCHANGED <<stvars, ghvars, cancelled, acceptor, max_connections, permits, metrics,
                   acc_last>>

\* write_all returns Ok in the Error arm: break to the select!
ErrorWriteComplete(c) ==
    /\ conn[c].pc = "write_err"
    /\ sock' = [sock EXCEPT ![c].outbox = @ \o conn[c].wbuf]
    /\ exec_log' = [exec_log EXCEPT ![c][Len(exec_log[c])].wrote = conn[c].wbuf]
    /\ conn' = [conn EXCEPT ![c].wbuf = <<>>, ![c].pc = "select"]
    /\ UNCHANGED <<stvars, ghvars, cancelled, acceptor, max_connections, permits, metrics,
                   acc_last>>

\* write_all returns Err after n bytes went out: `?` leaves the function
WriteFailed(c, n) ==
    /\ conn[c].pc \in {"write", "write_err"}
    /\ sock[c].peer = "closed"
    /\ n \in {0, Len(conn[c].wbuf) \div 2}
    /\ sock' = [sock EXCEPT ![c].outbox = @ \o SubSeq(conn[c].wbuf, 1, n)]
    /\ ExitByReturn(c, "write_error", conn[c])
    /\ UNCHANGED <<stvars, ghvars, cancelled, acceptor, max_connections, exec_log, acc_last>>

----------------------------------------------------------------------------
(* Keys used by the scripts and by the storage specification: "k", "x"      *)
(* What the clients send.  A script is a sequence of items, each the bytes  *)
(* of one request line (with its data block) and the command it is meant to *)
(* be; a malformed line is meant to be no command.                          *)

K1 == <<107>>
K2 == <<120>>

Req_get(keys) ==
    [bytes |-> B_get \o SP \o keys[1]
                 \o (IF Len(keys) > 1 THEN SP \o keys[2] ELSE <<>>) \o CRLF,
     valid |-> TRUE, cmd |-> CmdGet(keys)]
Req_set(key, flags, exptime, data, noreply) ==
    [bytes |-> B_set \o SP \o key \o SP \o Itoa(flags) \o SP \o Itoa(exptime) \o SP
                 \o Itoa(Len(data)) \o (IF noreply THEN SP \o B_noreply ELSE <<>>) \o CRLF
                 \o data \o CRLF,
     valid |-> TRUE, cmd |-> CmdSet(key, flags, exptime, data, noreply)]
Req_delete(key, noreply) ==
    [bytes |-> B_delete \o SP \o key \o (IF noreply THEN SP \o B_noreply ELSE <<>>) \o CRLF,
     valid |-> TRUE, cmd |-> CmdDelete(key, noreply)]
Req_version == [bytes |-> B_version \o CRLF, valid |-> TRUE, cmd |-> CmdVersion]
Req_quit == [bytes |-> B_quit \o CRLF, valid |-> TRUE, cmd |-> CmdQuit]
\* "garbage\r\n"
Req_garbage ==
    [bytes |-> <<103, 97, 114, 98, 97, 103, 101>> \o CRLF, valid |-> FALSE, cmd |-> CmdQuit]

\* "g\rx\r\n": a line with a bare CR in it
Req_bare_cr == [bytes |-> <<103, 13, 120>> \o CRLF, valid |-> FALSE, cmd |-> CmdQuit]

\* "set k 0 0 1\r\nab\r\n": the data block is a byte longer than declared
Req_long_data ==
    [bytes |-> B_set \o SP \o K1 \o <<32, 48, 32, 48, 32, 49>> \o CRLF \o <<97, 98>> \o CRLF,
     valid |-> FALSE, cmd |-> CmdQuit]

\* "abcd"
D_abcd == <<97, 98, 99, 100>>

\* the scripts of the socket whose connection is examined
Scripts ==
    << \* 1: set k 0 0 4 / abcd
       <<Req_set(K1, 0, 0, D_abcd, FALSE)>>,
       \* 2: a SET with a relative TTL whose data is "\r\n"
       <<Req_set(K1, 7, 1, CRLF, FALSE)>>,
       \* 3: garbage, then version
       <<Req_garbage, Req_version>>,
       \* 4: a noreply SET, then GET, DELETE and VERSION, pipelined
       <<Req_set(K1, 7, 0, <<97>>, TRUE), Req_get(<<K1>>), Req_delete(K1, FALSE),
         Req_version>>,
       \* 5: a multi-key GET, a noreply DELETE, a GET
       <<Req_set(K2, 0, 0, <<97>>, FALSE), Req_get(<<K1, K2>>), Req_delete(K2, TRUE),
         Req_get(<<K2>>)>>,
       \* 6: version, quit, version
       <<Req_version, Req_quit, Req_version>>,
       \* 7: quit
       <<Req_quit>>,
       \* 8: a line with a bare CR, then version
       <<Req_bare_cr, Req_version>>,
       \* 9: a SET whose data block lacks its CRLF where the header says
       <<Req_long_data>>
    >>

\* the scripts of the first socket when admission is examined
AdmissionScripts == {7}

RECURSIVE ScriptBytes(_)
ScriptBytes(items) ==
    IF items = <<>> THEN <<>> ELSE Head(items).bytes \o ScriptBytes(Tail(items))

\* engine faults tried with a command of a connection
ConnFails ==
    {NoFail, [get |-> TRUE, put |-> TRUE, del |-> TRUE, multi |-> {1}, dels |-> {}]}

NoSock == [script |-> 0, to_send |-> <<>>, peer |-> "open", outbox |-> <<>>, nreads |-> 0]

\* the state after Server::new: the semaphore holds max_connections permits
ServerNew(m) ==
    /\ cancelled = FALSE
    /\ acceptor = "running"
    /\ max_connections = m
    /\ permits = m
    /\ metrics = [total_connections |-> 0, active_connections |-> 0,
                  rejected_connections |-> 0, protocol_errors |-> 0]
    /\ exec_log = [c \in Sockets |-> <<>>]
    /\ acc_last = [socket |-> 0, permits |-> 0, admitted |-> FALSE, total |-> 0,
                   rejected |-> 0, running |-> 0]

Init ==
    /\ db = <<>>
    /\ now = NowBase
    /\ expired_removed = 0
    /\ storage_errors = 0
    /\ st_last = [op |-> "none", keys |-> <<>>, time |-> NowBase, pre |-> <<>>,
                  res |-> <<>>, ok |-> TRUE, response |-> <<>>, f |-> NoFail]
    /\ st_written = [k \in {K1, K2} |-> [kind |-> "none", flags |-> 0, data |-> <<>>,
                                         expire_at |-> 0]]
    /\ steps = 0
    /\ race = RaceIdle
    /\ applied = NoApplied
    /\ \/ \* one connection and its script
          /\ ServerNew(1)
          /\ \E i \in (1..Len(Scripts)) \ AdmissionScripts :
               sock = [c \in Sockets |->
                         IF c = 1 THEN [NoSock EXCEPT !.script = i,
                                                      !.to_send = ScriptBytes(Scripts[i])]
                         ELSE NoSock]
          /\ conn = [c \in Sockets |-> NoConn(IF c = 1 THEN "idle" ELSE "absent")]
       \/ \* several sockets compete for the permits
          /\ \E m \in 0..MaxConnections : ServerNew(m)
          /\ \E i \in AdmissionScripts :
               sock = [c \in Sockets |->
                         IF c = 1 THEN [NoSock EXCEPT !.script = i,
                                                      !.to_send = ScriptBytes(Scripts[i])]
                         ELSE NoSock]
          /\ conn = [c \in Sockets |-> NoConn("idle")]

Next ==
    \/ \E c \in Sockets : ClientConnect(c)
    \/ \E c \in Sockets : ClientClose(c)
    \/ Cancel
    \/ AcceptorShutdown
    \/ \E c \in Sockets : Accept(c)
    \/ \E c \in Sockets : HandleCancelled(c)
    \/ \E c \in Sockets : \E n \in 1..Len(sock[c].to_send) : HandleRead(c, n)
    \/ \E c \in Sockets : HandleEof(c)
    \/ \E c \in Sockets : HandleReadError(c)
    \/ \E c \in Sockets : \E f \in ConnFails : HandleComplete(c, f)
    \/ \E c \in Sockets : HandleNeedMoreData(c)
    \/ \E c \in Sockets : HandleError(c)
    \/ \E c \in Sockets : WriteComplete(c)
    \/ \E c \in Sockets : ErrorWriteComplete(c)
    \/ \E c \in Sockets : \E n \in 0..Len(conn[c].wbuf) : WriteFailed(c, n)

Spec == Init /\ [][Next]_svars

\* The scheduling the runtime guarantees: a task that can run does run, a
\* cancelled token wakes the select!, a read of a closed socket returns and a
\* write to one fails.  Nothing makes an open peer read, so a write_all may
\* stay pending for ever, and nothing makes a peer send or a client connect.
Fairness ==
    \A c \in Sockets :
        /\ WF_svars(HandleCancelled(c))
        /\ WF_svars(\E f \in ConnFails : HandleComplete(c, f))
        /\ WF_svars(HandleNeedMoreData(c))
        /\ WF_svars(HandleError(c))
        /\ WF_svars(HandleEof(c))
        /\ WF_svars(\E n \in 0..Len(conn[c].wbuf) : WriteFailed(c, n))

\* one connection that is sent a malformed line and a command: both
\* write_all calls of the loop are reached
InitFair == Init /\ sock[1].script = 3

SpecFair == InitFair /\ [][Next]_svars /\ Fairness

----------------------------------------------------------------------------
(* The storage specification: one caller issues GET, SET and DELETE through *)
(* the handlers while the clock advances.                                   *)

StKeys == {K1, K2}
\* (flags, data) pairs: (0, "a") and (7, "\r\n")
StValues == {[flags |-> 0, data |-> <<97>>], [flags |-> 7, data |-> CRLF]}
\* never, relative, absolute
StExptimes == {0, 1, NowBase + 2}
\* engine faults tried with a single-key command
StFails == {NoFail, [NoFail EXCEPT !.get = TRUE], [NoFail EXCEPT !.del = TRUE]}
\* engine faults tried with a SET
StPutFails == {NoFail, [NoFail EXCEPT !.put = TRUE]}
\* engine faults tried with a multi-key GET
StMultiFails ==
    {NoFail, [NoFail EXCEPT !.multi = {2}], [NoFail EXCEPT !.dels = {K1}]}
\* a stored value one byte short of the 12-byte header
Bytes11 == [i \in 1..11 |-> 0]
\* what the database directory may hold when it is opened
StInitDbs ==
    {<<>>,
     [k \in {K1, K2} |->
         IF k = K1 THEN Bytes11 ELSE encode([expire_at |-> 0, flags |-> 0, data |-> <<>>])],
     [k \in {K2} |-> encode([expire_at |-> NowBase + 1, flags |-> 7, data |-> <<97>>])]}

NoWrite == [kind |-> "none", flags |-> 0, data |-> <<>>, expire_at |-> 0]

StInit ==
    /\ db \in StInitDbs
    /\ now = NowBase
    /\ expired_removed = 0
    /\ storage_errors = 0
    /\ st_last = [op |-> "none", keys |-> <<>>, time |-> NowBase, pre |-> <<>>,
                  res |-> <<>>, ok |-> TRUE, response |-> <<>>, f |-> NoFail]
    /\ st_written = [k \in StKeys |-> NoWrite]
    /\ steps = 0
    /\ race = RaceIdle
    /\ applied = NoApplied
    /\ ServerIdle

\* the outcome o of a handler is applied to the shared state
StApply(o) ==
    /\ db' = o.db
    /\ expired_removed' = expired_removed + o.expired
    /\ storage_errors' = storage_errors + o.errors
    /\ steps' = steps + 1
    /\ now' = now

StGet(k, f) ==
    /\ steps < MaxSteps
    /\ UNCHANGED cvars
    /\ UNCHANGED <<race, applied>>
    /\ LET o == execute(db, now, CmdGet(<<k>>), <<>>, f)
           r == RocksStorage_get(db, now, k, f.get, f.del)
       IN  /\ StApply(o)
           /\ st_last' = [op |-> "get", keys |-> <<k>>, time |-> now, pre |-> db,
                          res |-> <<r.res>>, ok |-> (r.res.tag # "Err"),
                          response |-> o.response, f |-> f]
    /\ UNCHANGED st_written

StGetMulti(keys, f) ==
    /\ steps < MaxSteps
    /\ UNCHANGED cvars
    /\ UNCHANGED <<race, applied>>
    /\ LET o == execute(db, now, CmdGet(keys), <<>>, f)
           r == RocksStorage_get_multi(db, now, keys, f.multi, f.dels)
       IN  /\ StApply(o)
           /\ st_last' = [op |-> "get_multi", keys |-> keys, time |-> now, pre |-> db,
                          res |-> [i \in 1..Len(r.results) |-> r.results[i].res],
                          ok |-> r.ok, response |-> o.response, f |-> f]
    /\ UNCHANGED st_written

StSet(k, v, exptime, f) ==
    /\ steps < MaxSteps
    /\ UNCHANGED cvars
    /\ UNCHANGED <<race, applied>>
    /\ LET o == execute(db, now, CmdSet(k, v.flags, exptime, v.data, FALSE), <<>>, f)
       IN  /\ StApply(o)
           /\ st_last' = [op |-> "set", keys |-> <<k>>, time |-> now, pre |-> db,
                          res |-> <<>>, ok |-> ~f.put, response |-> o.response, f |-> f]
           /\ st_written' =
                IF f.put THEN st_written
                ELSE [st_written EXCEPT ![k] =
                        [kind |-> "set", flags |-> v.flags, data |-> v.data,
                         expire_at |-> IF exptime = 0 THEN 0
                                       ELSE IF exptime <= 2592000 THEN now + exptime
                                       ELSE exptime]]

StDelete(k, f) ==
    /\ steps < MaxSteps
    /\ UNCHANGED cvars
    /\ UNCHANGED <<race, applied>>
    /\ LET o == execute(db, now, CmdDelete(k, FALSE), <<>>, f)
           r == RocksStorage_delete(db, k, f.get, f.del)
       IN  /\ StApply(o)
           /\ st_last' = [op |-> "delete", keys |-> <<k>>, time |-> now, pre |-> db,
                          res |-> <<>>, ok |-> r.ok, response |-> o.response, f |-> f]
           /\ st_written' =
                IF r.ok THEN [st_written EXCEPT ![k] = [NoWrite EXCEPT !.kind = "delete"]]
                ELSE st_written

\* the clock advances by a second
Tick ==
    /\ now < NowBase + MaxTicks
    /\ now' = now + 1
    /\ UNCHANGED <<db, expired_removed, storage_errors, st_last, st_written, steps>>
    /\ UNCHANGED cvars
    /\ UNCHANGED <<race, applied>>

StNext ==
    \/ \E k \in StKeys, f \in StFails : StGet(k, f)
    \/ \E k1 \in StKeys, k2 \in StKeys, f \in StMultiFails : StGetMulti(<<k1, k2>>, f)
    \/ \E k \in StKeys, v \in StValues, e \in StExptimes, f \in StPutFails : StSet(k, v, e, f)
    \/ \E k \in StKeys, f \in StFails : StDelete(k, f)
    \/ Tick

SpecStorage == StInit /\ [][StNext]_svars

----------------------------------------------------------------------------
(* The race specification: handlers of different connections run on the   *)
(* worker threads of the runtime and share the engine; each engine call is *)
(* one step, so the two engine calls of RocksStorage::delete, and the      *)
(* lookup and the lazy delete of RocksStorage::get, are two steps between  *)
(* which other tasks' calls may land.                                      *)

\* the value the racing SETs store: flags 0, data "a", no expiry
RaceValue == [flags |-> 0, data |-> <<97>>]

\* the engine call made now, appended to the order
Called(c, call, k) ==
    Append(race.order, [caller |-> c, call |-> call, key |-> k, present |-> k \in DOMAIN db])

\* handle_set on task c: the one engine call put_opt, then STORED
RaceSet(c, k) ==
    /\ race.call[c].pc = "idle"
    /\ LET o == handle_set(db, now, k, RaceValue.flags, 0, RaceValue.data, <<>>, NoFail)
       IN  /\ db' = o.db
           /\ race' = [call |-> [race.call EXCEPT ![c] =
                                    [NoCall EXCEPT !.op = "set", !.key = k, !.pc = "done",
                                                   !.response = o.response,
                                                   !.write_at = Len(race.order) + 1]],
                       order |-> Called(c, "put_opt", k)]
    /\ UNCHANGED <<now, expired_removed, storage_errors, st_last, st_written, steps, applied>>
    /\ UNCHANGED cvars

\* handle_delete on task c, first engine call: the probe
RaceDeleteProbe(c, k) ==
    /\ race.call[c].pc = "idle"
    /\ race' = [call |-> [race.call EXCEPT ![c] =
                             [NoCall EXCEPT !.op = "delete", !.key = k, !.pc = "probed",
                                            !.existed = delete_probe(db, k),
                                            !.probe_at = Len(race.order) + 1]],
                order |-> Called(c, "get", k)]
    /\ UNCHANGED <<db, now, expired_removed, storage_errors, st_last, st_written, steps, applied>>
    /\ UNCHANGED cvars

\* handle_delete on task c, second engine call: delete_opt, then the reply
RaceDeleteOpt(c) ==
    /\ race.call[c].op = "delete"
    /\ race.call[c].pc = "probed"
    /\ db' = db_delete(db, race.call[c].key)
    /\ race' = [call |-> [race.call EXCEPT ![c].pc = "done",
                                           ![c].response = delete_reply(race.call[c].existed, <<>>),
                                           ![c].write_at = Len(race.order) + 1],
                order |-> Called(c, "delete_opt", race.call[c].key)]
    /\ UNCHANGED <<now, expired_removed, storage_errors, st_last, st_written, steps, applied>>
    /\ UNCHANGED cvars

\* handle_get on task c, single key, up to the lazy delete: the engine's
\* get, decode, is_expired and the fetch_add on EXPIRED_KEYS_REMOVED.  The
\* task goes on to delete_opt only when it saw an expired entry.
RaceGetProbe(c, k) ==
    /\ race.call[c].pc = "idle"
    /\ LET o == handle_get(db, now, <<k>>, <<>>, [NoFail EXCEPT !.del = TRUE])
       IN  /\ expired_removed' = expired_removed + o.expired
           /\ storage_errors' = storage_errors + o.errors
           /\ race' = [call |-> [race.call EXCEPT ![c] =
                                    [NoCall EXCEPT !.op = "get", !.key = k,
                                                   !.pc = IF o.expired = 1 THEN "expired"
                                                          ELSE "done",
                                                   !.existed = k \in DOMAIN db,
                                                   !.response = o.response,
                                                   !.probe_at = Len(race.order) + 1]],
                       order |-> Called(c, "get", k)]
    /\ UNCHANGED <<db, now, st_last, st_written, steps, applied>>
    /\ UNCHANGED cvars

\* handle_get on task c: the lazy delete_opt of the key seen expired, then END
RaceGetDelete(c) ==
    /\ race.call[c].op = "get"
    /\ race.call[c].pc = "expired"
    /\ db' = db_delete(db, race.call[c].key)
    /\ race' = [call |-> [race.call EXCEPT ![c].pc = "done",
                                           ![c].write_at = Len(race.order) + 1],
                order |-> Called(c, "delete_opt", race.call[c].key)]
    /\ UNCHANGED <<now, expired_removed, storage_errors, st_last, st_written, steps, applied>>
    /\ UNCHANGED cvars

RaceNext ==
    \/ \E c \in Callers, k \in StKeys : RaceSet(c, k)
    \/ \E c \in Callers, k \in StKeys : RaceDeleteProbe(c, k)
    \/ \E c \in Callers : RaceDeleteOpt(c)
    \/ \E c \in Callers, k \in StKeys : RaceGetProbe(c, k)
    \/ \E c \in Callers : RaceGetDelete(c)
    \/ Tick

SpecRace == StInit /\ [][RaceNext]_svars

----------------------------------------------------------------------------
(* The library specification: the functions of the protocol and storage   *)
(* modules that depend on their arguments only are called with arguments  *)
(* from the sets below: one call in a run, except for the compaction      *)
(* filter, which is called again and again and counts.                    *)

\* n times the byte b
Rep(b, n) == [i \in 1..n |-> b]

\* all byte strings over bs of length at most n
SeqsUpTo(bs, n) == UNION {[1..m -> bs] : m \in 0..n}

\* bytes around the limits of a key byte: NUL, US, SP, '!', 'A', '~', DEL,
\* 0x80, 0xFF
KeyBytes == {0, 31, 32, 33, 65, 126, 127, 128, 255}

\* keys tried: every short string over KeyBytes, and strings of 'a' around
\* MAX_KEY_LENGTH, alone and with one more byte
PureKeys ==
    SeqsUpTo(KeyBytes, MaxKeyLen)
        \cup {Rep(97, n) : n \in {249, 250, 251}}
        \cup {Rep(97, n) \o <<b>> : n \in {249, 250}, b \in {32, 33, 127}}

\* exptime arguments around 0, MAX_RELATIVE_TTL and the clock, and the largest
\* integer of the model
PureExptimes ==
    {0, 1, 2, MAX_RELATIVE_TTL - 1, MAX_RELATIVE_TTL, MAX_RELATIVE_TTL + 1, NowBase - 1,
     NowBase, NowBase + 1, NowBase + MaxTicks + 1, 2147483647}

\* what current_timestamp() may return: 0 when the clock is before the epoch
PureNows == {0} \cup (NowBase..(NowBase + MaxTicks))

\* stored values: fields up to the largest integer of the model
PureValues ==
    [expire_at : {0, 1, 255, 256, NowBase, 2147483647},
     flags : {0, 1, 255, 65536, 2147483647},
     data : SeqsUpTo({0, 13, 255}, 2)]

\* stored bytes: too short to decode, and headers with the bytes of the lower
\* 31 bits of each field set or clear, followed by data
PureBlobs ==
    {Rep(0, n) : n \in {0, 1, 11}}
        \cup {<<a, b, c, d, 0, 0, 0, 0, e, 0, 0, f>> \o data :
                 a \in {0, 255}, b \in {0, 255}, c \in {0, 255}, d \in {0, 127},
                 e \in {0, 255}, f \in {0, 127}, data \in {<<>>, <<0>>, CRLF}}

\* values handed to the compaction filter: shorter than 8 bytes, and expire_at
\* around 0 and the clock or with high bytes set, alone and followed by bytes
FilterValues ==
    {Rep(1, n) : n \in {0, 1, 7}}
        \cup {e \o tail :
                 e \in {LEBytes(x, 8) : x \in {0, 1, NowBase - 1, NowBase, NowBase + 1,
                                                NowBase + MaxTicks, NowBase + MaxTicks + 1}}
                        \cup {<<0, 0, 0, 0, 1, 0, 0, 0>>, <<0, 0, 0, 0, 0, 0, 0, 128>>,
                              Rep(255, 8)},
                 tail \in {<<>>, <<0>>, Rep(0, 4)}}

\* a command name in lower case, in upper case, and with its first or its
\* last letter in upper case
Spellings(name) ==
    {name,
     [i \in 1..Len(name) |-> name[i] - 32],
     [i \in 1..Len(name) |-> IF i = 1 THEN name[i] - 32 ELSE name[i]],
     [i \in 1..Len(name) |-> IF i = Len(name) THEN name[i] - 32 ELSE name[i]]}

\* first tokens that are no command: "", "ge", "gets", "GETS", "se", "delet",
\* "versions", "qui"
NoCommands ==
    {<<>>, <<103, 101>>, B_get \o <<115>>, <<71, 69, 84, 83>>, <<115, 101>>,
     SubSeq(B_delete, 1, 5), B_version \o <<115>>, SubSeq(B_quit, 1, 3)}

\* what follows the first token: nothing, a key, a SET header with its data
LineRests == {CRLF, SP \o K1 \o CRLF, SP \o K1 \o <<32, 48, 32, 48, 32, 49>> \o CRLF \o <<97>> \o CRLF}

\* buffers for the command dispatch, with and without a CRLF
DispatchBufs ==
    {n \o r : n \in UNION {Spellings(c) : c \in {B_get, B_set, B_delete, B_version, B_quit}}
                      \cup NoCommands,
              r \in LineRests}
        \cup {<<>>, <<10>>, <<13>>, B_version, B_version \o <<10>>, B_version \o <<13>>,
              B_get \o SP \o K1 \o <<10>>}

\* what follows "delete k": "", " noreply", " 0", " 0 noreply", " noreply 0",
\* "  noreply", " NOREPLY", " noreplyx", " 0 0 noreply"
DeleteTails ==
    {<<>>, SP \o B_noreply, <<32, 48>>, <<32, 48>> \o SP \o B_noreply,
     SP \o B_noreply \o <<32, 48>>, SP \o SP \o B_noreply,
     SP \o [i \in 1..7 |-> B_noreply[i] - 32], SP \o B_noreply \o K2,
     <<32, 48, 32, 48>> \o SP \o B_noreply}

\* delete lines: the keys "k" and "noreply", and no key at all
DeleteBufs ==
    {B_delete \o SP \o key \o t \o CRLF : key \in {K1, B_noreply}, t \in DeleteTails}
        \cup {B_delete \o CRLF, B_delete \o SP \o CRLF}

\* tokens of a get line: empty, valid keys (one of 250 bytes), keys with a bad
\* byte, keys of 251 bytes with and without bad bytes
GetTokens == {<<>>, K1, K2, Rep(97, 250), <<107, 1>>, <<127>>, Rep(97, 251), Rep(1, 251)}

\* get lines of up to three tokens
GetBufs ==
    {B_get \o CRLF}
        \cup UNION {{B_get \o SP \o a \o CRLF : a \in GetTokens},
                    {B_get \o SP \o a \o SP \o b \o CRLF : a \in GetTokens, b \in GetTokens},
                    {B_get \o SP \o a \o SP \o b \o SP \o c \o CRLF :
                        a \in {<<>>, K1, <<127>>}, b \in GetTokens, c \in {<<>>, K2, Rep(1, 251)}}}

\* "0", "1", "2"
Digit(n) == <<48 + n>>

\* "set k 0 0 "
SetPrefix == B_set \o SP \o K1 \o <<32, 48, 32, 48, 32>>

\* bytes of a data block and after it: NUL, LF, CR, 'a'
BodyBytes == {0, 10, 13, 97}

\* a SET header declaring 0, 1 or 2 bytes, with and without noreply, followed
\* by every string of up to MaxTail bytes
SetBufs ==
    {SetPrefix \o Digit(b) \o nr \o CRLF \o t :
        b \in 0..2, nr \in {<<>>, SP \o B_noreply}, t \in SeqsUpTo(BodyBytes, MaxTail)}

\* "999999999", "1000000000", "18446744073709551582" (with the header of 30
\* bytes data_end is 2^64 - 2), "18446744073709551613", "...614", "...615"
HugeLengths ==
    {Rep(57, 9), <<49>> \o Rep(48, 9),
     [i \in 1..20 |-> IF i = 19 THEN 56 ELSE IF i = 20 THEN 50 ELSE 48 + U64_MAX_DIGITS[i]]} \cup
    {[i \in 1..20 |-> IF i = 20 THEN 48 + d ELSE 48 + U64_MAX_DIGITS[i]] : d \in 3..5}

\* a SET header declaring a length near the limits of the integers, alone and
\* followed by bytes
HugeSetBufs ==
    {SetPrefix \o n \o CRLF \o t : n \in HugeLengths, t \in {<<>>, <<97>>, CRLF, <<97>> \o CRLF}}

\* tokens for the numeric fields: "0", "1", "+1", "-1", "", "1a", "007", "+",
\* TAB "1", "4294967295", "4294967296", "18446744073709551615",
\* "18446744073709551616"
NumTokens ==
    {<<48>>, <<49>>, <<43, 49>>, <<45, 49>>, <<>>, <<49, 97>>, <<48, 48, 55>>, <<43>>,
     <<9, 49>>,
     [i \in 1..10 |-> 48 + U32_MAX_DIGITS[i]],
     [i \in 1..10 |-> IF i = 10 THEN 54 ELSE 48 + U32_MAX_DIGITS[i]],
     [i \in 1..20 |-> 48 + U64_MAX_DIGITS[i]],
     [i \in 1..20 |-> IF i = 20 THEN 54 ELSE 48 + U64_MAX_DIGITS[i]]}

\* SET headers with every choice of the three numeric tokens, followed by one
\* byte of data, and headers that end early
FieldBufs ==
    {B_set \o SP \o K1 \o SP \o f \o SP \o e \o SP \o b \o CRLF \o <<97>> \o CRLF :
        f \in NumTokens, e \in NumTokens, b \in NumTokens}
        \cup {B_set \o SP \o K1 \o CRLF, B_set \o SP \o K1 \o <<32, 48>> \o CRLF,
              B_set \o SP \o K1 \o <<32, 48, 32, 48>> \o CRLF}

ParseBufs == DispatchBufs \cup DeleteBufs \cup GetBufs \cup SetBufs \cup HugeSetBufs \cup FieldBufs

\* the call of fn with arg returned out
Return(fn, arg, out) ==
    /\ applied' = [applied EXCEPT !.fn = fn, !.arg = arg, !.out = out]
    /\ UNCHANGED <<stvars, st_last, st_written, steps, race>>
    /\ UNCHANGED cvars

ApplyIsValidKey(key) == Return("is_valid_key", key, is_valid_key(key))

\* calculate_expire_at, and whether the value StoredValue::new builds with it
\* is expired at once
ApplyCalculateExpireAt(exptime, t) ==
    Return("calculate_expire_at", [exptime |-> exptime, now |-> t],
           [expire_at |-> calculate_expire_at(exptime, t),
            expired |-> is_expired(StoredValue_new(0, exptime, <<>>, t), t)])

ApplyEncode(v) == Return("encode", v, [bytes |-> encode(v), back |-> decode(encode(v))])

ApplyDecode(bytes) == Return("decode", bytes, decode(bytes))

\* parse, in a build with or without overflow checks
ApplyParse(buf) == \E out \in Outcomes(parse(buf)) : Return("parse", buf, out)

\* the two-phase path of the connection on the same buffer, beside parse:
\* parse_storage_command_line, then parse_storage_data with its descriptor
ApplyTwoPhase(buf, build) ==
    LET line == parse_storage_command_line(buf) IN
    Return("two_phase", buf,
           [line |-> line,
            two |-> IF line.some THEN Built(build, parse_storage_data(buf, line))
                    ELSE NeedMoreData,
            one |-> Built(build, parse(buf))])

\* RocksDB calls the filter for an entry during compaction, again and again; a
\* Remove is counted in TTL_COMPACTION_REMOVED
ApplyCompactionFilter(value, t) ==
    /\ applied.fn \in {"none", "ttl_compaction_filter"}
    /\ applied.removed < MaxRemoved
    /\ LET d == ttl_compaction_filter(value, t) IN
       applied' = [fn |-> "ttl_compaction_filter", arg |-> [value |-> value, now |-> t],
                   out |-> [decision |-> d, before |-> applied.removed],
                   removed |-> IF d = "Remove" THEN applied.removed + 1 ELSE applied.removed]
    /\ UNCHANGED <<stvars, st_last, st_written, steps, race>>
    /\ UNCHANGED cvars

PureInit == StInit /\ db = <<>>

PureNext ==
    \/ applied.fn = "none" /\ \E key \in PureKeys : ApplyIsValidKey(key)
    \/ applied.fn = "none" /\ \E exptime \in PureExptimes, t \in PureNows :
                                 ApplyCalculateExpireAt(exptime, t)
    \/ applied.fn = "none" /\ \E v \in PureValues : ApplyEncode(v)
    \/ applied.fn = "none" /\ \E bytes \in PureBlobs : ApplyDecode(bytes)
    \/ applied.fn = "none" /\ \E buf \in ParseBufs : ApplyParse(buf)
    \/ applied.fn = "none" /\ \E buf \in ParseBufs, build \in Builds : ApplyTwoPhase(buf, build)
    \/ \E value \in FilterValues, t \in PureNows : ApplyCompactionFilter(value, t)

SpecPure == PureInit /\ [][PureNext]_svars

----------------------------------------------------------------------------
(* Properties of the storage facade *)

\* needle occurs in hay as a contiguous block
Contains(hay, needle) ==
    \E i \in 0..(Len(hay) - Len(needle)) : SubSeq(hay, i + 1, i + Len(needle)) = needle

\* the stored bytes carry a nonzero expire_at that is not after time t
RawExpired(raw, t) ==
    /\ raw # Absent
    /\ Len(raw) >= 12
    /\ FromLE(SubSeq(raw, 1, 8)) # 0
    /\ FromLE(SubSeq(raw, 1, 8)) <= t

\* C1: a get(k) whose engine lookup does not fail, issued after the last
\* completed set(k, v) and while v is unexpired (expire_at = 0 or now <
\* expire_at), returns Some with v's flags and data; issued after the last
\* completed delete(k), it returns None.
C1_SetGetDelete ==
    (st_last.op = "get" /\ ~st_last.f.get) =>
        LET k == st_last.keys[1]
            w == st_written[k]
            r == st_last.res[1]
        IN  /\ (w.kind = "set" /\ (w.expire_at = 0 \/ st_last.time < w.expire_at))
                => (r.tag = "Some" /\ r.value.flags = w.flags /\ r.value.data = w.data)
            /\ (w.kind = "delete") => (r.tag = "None")

\* a get one second before the value's expiry returns the value set
C1_Witness ==
    /\ st_last.op = "get"
    /\ st_written[st_last.keys[1]].kind = "set"
    /\ st_written[st_last.keys[1]].expire_at = st_last.time + 1
    /\ st_last.res[1].tag = "Some"
    /\ st_last.res[1].value.data = CRLF

\* C2: get and get_multi never return Some for a key whose stored entry has a
\* nonzero expire_at <= now at the lookup: the key's result is None whenever the
\* call succeeds, and the GET response has no VALUE line for the key, whether
\* or not the entry was physically removed.
C2_ExpiredNeverReturned ==
    (st_last.op \in {"get", "get_multi"}) =>
        \A i \in 1..Len(st_last.keys) :
            RawExpired(db_get(st_last.pre, st_last.keys[i]), st_last.time) =>
                /\ st_last.ok => st_last.res[i].tag = "None"
                /\ ~Contains(st_last.response, B_VALUE \o st_last.keys[i] \o SP)

\* a multi-key GET at the very second of expiry whose lazy delete failed: the
\* expired entry is still stored and is reported as a miss
C2_Witness ==
    /\ st_last.op = "get_multi"
    /\ st_last.ok
    /\ \E i \in 1..Len(st_last.keys) :
          /\ RawExpired(db_get(st_last.pre, st_last.keys[i]), st_last.time)
          /\ FromLE(SubSeq(db_get(st_last.pre, st_last.keys[i]), 1, 8)) = st_last.time
          /\ st_last.keys[i] \in DOMAIN db
          /\ st_last.response = B_END


----------------------------------------------------------------------------
(* The connection: what a client sees of its script.                        *)

ScriptOf(c) == Scripts[sock[c].script]

\* every byte of the script was delivered and the task awaits the next read
Quiescent(c) == conn[c].pc = "select" /\ sock[c].to_send = <<>>

\* the scripts made of get, set, delete and version commands only
PlainScripts ==
    {i \in 1..Len(Scripts) :
        \A j \in 1..Len(Scripts[i]) :
            /\ Scripts[i][j].valid
            /\ Scripts[i][j].cmd.type \in {"Get", "Set", "Delete", "Version"}}

\* the scripts made of one SET
SetScripts ==
    {i \in 1..Len(Scripts) : Len(Scripts[i]) = 1 /\ Scripts[i][1].cmd.type = "Set"}

\* the client asked for no reply
SaidNoreply(item) == item.cmd.type \in {"Set", "Delete"} /\ item.cmd.noreply

IsPrefix(a, b) == Len(a) <= Len(b) /\ a = SubSeq(b, 1, Len(a))
StartsWith(r, p) == IsPrefix(p, r)
EndsWith(r, t) == Len(t) <= Len(r) /\ t = SubSeq(r, Len(r) - Len(t) + 1, Len(r))

\* one line: the only CRLF is at the end
OneLine(r) ==
    /\ EndsWith(r, CRLF)
    /\ \A i \in 1..(Len(r) - 2) : ~(r[i] = 13 /\ r[i + 1] = 10)

\* one response of the shape the command calls for
IsResponseTo(cmd, r) ==
    \/ OneLine(r) /\ StartsWith(r, B_SERVER_ERROR) /\ cmd.type # "Version"
    \/ cmd.type = "Get" /\ (r = B_END \/ (StartsWith(r, B_VALUE) /\ EndsWith(r, CRLF \o B_END)))
    \/ cmd.type = "Set" /\ r = B_STORED
    \/ cmd.type = "Delete" /\ r \in {B_DELETED, B_NOT_FOUND}
    \/ cmd.type = "Version" /\ OneLine(r) /\ StartsWith(r, B_VERSION)

\* the bytes owed to the client for the first n commands it sent
RECURSIVE EmittedUpTo(_, _)
EmittedUpTo(c, n) ==
    IF n = 0 THEN <<>>
    ELSE EmittedUpTo(c, n - 1)
             \o (IF SaidNoreply(ScriptOf(c)[n]) THEN <<>> ELSE exec_log[c][n].response)

\* C3: on a connection that is sent get, set, delete and version commands,
\* in any number of reads, the commands are executed in the order sent, each
\* non-noreply command gets one response of its kind (or an error line), a
\* noreply command gets no byte, and the socket carries the responses in the
\* order of the commands: all of them once every byte was read, and a prefix
\* of them while a write is pending or after a write failed.
C3_PipelinedResponses ==
    \A c \in Sockets :
        sock[c].script \in PlainScripts =>
            LET items == ScriptOf(c)
                log == exec_log[c]
                n == Len(log)
            IN  /\ n <= Len(items)
                /\ \A j \in 1..n :
                       /\ log[j].kind = "cmd"
                       /\ log[j].cmd = items[j].cmd
                       /\ SaidNoreply(items[j]) => log[j].wrote = <<>>
                       /\ ~SaidNoreply(items[j]) => IsResponseTo(items[j].cmd, log[j].response)
                /\ IF n = 0 THEN sock[c].outbox = <<>>
                   ELSE IF conn[c].pc = "write"
                   THEN sock[c].outbox = EmittedUpTo(c, n - 1)
                   ELSE IF conn[c].exit = "write_error"
                   THEN /\ IsPrefix(EmittedUpTo(c, n - 1), sock[c].outbox)
                        /\ IsPrefix(sock[c].outbox, EmittedUpTo(c, n))
                   ELSE sock[c].outbox = EmittedUpTo(c, n)
                /\ Quiescent(c) => n = Len(items)

\* a noreply SET, a GET, a DELETE and a VERSION went through in several reads
C3_Witness ==
    \E c \in Sockets :
        /\ sock[c].script = 4
        /\ Quiescent(c)
        /\ sock[c].nreads >= 2
        /\ Len(exec_log[c]) = 4
        /\ sock[c].outbox =
               rw_version(rw_deleted(rw_end(rw_value(<<>>, K1, 7, <<97>>))), PKG_VERSION)

\* C4: a malformed line and a complete valid command delivered by one read are
\* answered by a CLIENT_ERROR line and then the command's response, with no
\* further byte from the client.
C4_ErrorThenCommand ==
    \A c \in Sockets :
        (sock[c].script = 3 /\ sock[c].nreads = 1 /\ Quiescent(c)) =>
            /\ StartsWith(sock[c].outbox, B_CLIENT_ERROR)
            /\ EndsWith(sock[c].outbox, handle_version(<<>>))

\* C5: however the bytes of one valid SET are split into reads, the SET is
\* executed once at most, and once every byte was read it was executed once,
\* the engine holds the declared body with the header's flags and expiry
\* under the header's key, and the socket carries one STORED line.
C5_SplitSet ==
    \A c \in Sockets :
        sock[c].script \in SetScripts =>
            LET cmd == ScriptOf(c)[1].cmd
                log == exec_log[c]
            IN  /\ Len(log) <= 1
                /\ \A j \in 1..Len(log) : log[j].kind = "cmd" /\ log[j].cmd = cmd
                /\ Len(log) = 0 => db_get(db, cmd.key) = Absent /\ sock[c].outbox = <<>>
                /\ (Len(log) = 1 /\ log[1].f = NoFail) =>
                       /\ IsPrefix(sock[c].outbox, B_STORED)
                       /\ db_get(db, cmd.key) =
                              encode([expire_at |-> calculate_expire_at(cmd.exptime, log[1].time),
                                      flags |-> cmd.flags, data |-> cmd.data])
                /\ Quiescent(c) =>
                       /\ Len(log) = 1
                       /\ log[1].f = NoFail => sock[c].outbox = B_STORED

\* "set k 0 0 4\r\nabcd\r\n" arrived in three reads, its body after its header
C5_Witness ==
    \E c \in Sockets :
        /\ sock[c].script = 1
        /\ Quiescent(c)
        /\ sock[c].nreads = 3
        /\ Len(exec_log[c]) = 1
        /\ exec_log[c][1].pending
        /\ sock[c].outbox = B_STORED
        /\ db_get(db, K1) = LEBytes(0, 8) \o LEBytes(0, 4) \o D_abcd


\* C6: the running connection tasks never outnumber max_connections; the
\* acceptor takes a queued socket without waiting for a permit; a socket
\* accepted while every permit is held gets no task, adds one to
\* rejected_connections and nothing to total_connections; with
\* max_connections = 0 no connection is ever admitted.
C6_AdmissionBound ==
    /\ Cardinality(Running) <= max_connections
    /\ \A c \in Sockets :
           /\ (acceptor = "running" /\ conn[c].pc = "queued") => ENABLED Accept(c)
           /\ conn[c].pc = "rejected" => exec_log[c] = <<>> /\ sock[c].outbox = <<>>
    /\ (acc_last.socket # 0 /\ acc_last.running = max_connections) =>
           /\ ~acc_last.admitted
           /\ conn[acc_last.socket].pc = "rejected"
           /\ metrics.rejected_connections = acc_last.rejected + 1
           /\ metrics.total_connections = acc_last.total
    /\ max_connections = 0 => Running = {} /\ metrics.total_connections = 0

\* a socket was turned away while the only permit was held
C6_Witness ==
    /\ max_connections = 1
    /\ acc_last.socket # 0
    /\ ~acc_last.admitted
    /\ acc_last.running = 1
    /\ conn[acc_last.socket].pc = "rejected"
    /\ metrics.rejected_connections = 1

\* C7: a task holds one permit from its admission to its exit, whichever way
\* it leaves the loop (end of stream, read error, write error, quit,
\* shutdown): the free permits and the running tasks add up to
\* max_connections, all permits are free once every task has exited, and a
\* connection accepted while fewer than max_connections tasks run is admitted.
C7_PermitReturned ==
    /\ permits + Cardinality(Running) = max_connections
    /\ Running = {} => permits = max_connections
    /\ \A c \in Sockets :
           conn[c].pc = "done" =>
               conn[c].exit \in {"eof", "read_error", "write_error", "quit", "shutdown"}
    /\ (acc_last.socket # 0 /\ acc_last.running < max_connections) => acc_last.admitted

\* with one permit, a connection quit, a second one ended, a third was admitted
C7_Witness ==
    /\ max_connections = 1
    /\ conn[1].pc = "done" /\ conn[1].exit = "quit"
    /\ \E c \in Sockets : conn[c].pc = "done" /\ conn[c].exit = "eof"
    /\ acc_last.admitted
    /\ acc_last.total = 2
    /\ conn[acc_last.socket].pc = "select"

\* C8: once the shutdown signal has fired, a task that is at a suspension
\* point (the select!, or a write_all) does nothing but exit: it reads
\* nothing, executes nothing and writes nothing.
C8_ExitAtSuspension ==
    [][\A c \in Sockets :
          (/\ cancelled
           /\ conn[c].pc \in {"select", "write", "write_err"}
           /\ conn'[c] # conn[c]) =>
              /\ conn'[c].pc = "done"
              /\ sock'[c].outbox = sock[c].outbox
              /\ exec_log'[c] = exec_log[c]]_svars

\* C9: once the shutdown signal has fired, every connection task exits.
C9_ShutdownExits ==
    \A c \in Sockets : (cancelled /\ c \in Running) ~> (conn[c].pc = "done")

\* C10: no task has ended leaving a command that changed the engine, and
\* that asked for a reply, without its whole response on the socket.
C10_AtomicWithResponse ==
    \A c \in Sockets :
        \A j \in DOMAIN exec_log[c] :
            LET e == exec_log[c][j] IN
            (/\ conn[c].pc = "done"
             /\ e.kind = "cmd"
             /\ ~SaidNoreply(e)
             /\ e.response \in {B_STORED, B_DELETED}) =>
                e.wrote = e.response


----------------------------------------------------------------------------
(* More properties of the storage facade *)

\* C11: a single-key get that finds an entry with a nonzero expire_at <= now
\* returns None (the response is END alone), adds exactly one to the
\* expired-by-lazy counter and issues the engine delete: the entry is gone
\* when that delete does not fail, and everything else stored is untouched.
\* Any other single-key get (live entry, no entry, undecodable entry, failed
\* lookup) leaves the engine's contents and the counter as they were.
C11_LazyExpiration ==
    [][(steps' = steps + 1 /\ st_last'.op = "get") =>
          LET k == st_last'.keys[1]
              f == st_last'.f
          IN  IF ~f.get /\ RawExpired(db_get(db, k), now)
              THEN /\ st_last'.res[1].tag = "None"
                   /\ st_last'.response = B_END
                   /\ expired_removed' = expired_removed + 1
                   /\ f.del => db' = db
                   /\ ~f.del => /\ k \notin DOMAIN db'
                                /\ DOMAIN db' = (DOMAIN db) \ {k}
                                /\ \A x \in DOMAIN db' : db'[x] = db[x]
              ELSE /\ db' = db
                   /\ expired_removed' = expired_removed]_svars

\* a get of an entry past its expiry removed it and counted it
C11_Witness ==
    /\ st_last.op = "get"
    /\ ~st_last.f.del
    /\ RawExpired(db_get(st_last.pre, st_last.keys[1]), st_last.time)
    /\ st_last.keys[1] \notin DOMAIN db
    /\ st_last.response = B_END
    /\ expired_removed = 1


\* C12: a delete whose engine calls succeed answers DELETED when the engine
\* held an entry for the key (expired or not) and NOT_FOUND otherwise, and
\* afterwards no entry for the key is stored and every other entry is as it
\* was; so a delete that follows a successful delete of the same key answers
\* NOT_FOUND, and a delete of an absent key changes nothing.
C12_DeleteProbe ==
    [][(steps' = steps + 1 /\ st_last'.op = "delete" /\ st_last'.ok) =>
          LET k == st_last'.keys[1] IN
          /\ st_last'.response = IF k \in DOMAIN db THEN B_DELETED ELSE B_NOT_FOUND
          /\ DOMAIN db' = (DOMAIN db) \ {k}
          /\ \A x \in DOMAIN db' : db'[x] = db[x]
          /\ k \notin DOMAIN db => db' = db
          /\ (st_last.op = "delete" /\ st_last.ok /\ st_last.keys = st_last'.keys)
                 => st_last'.response = B_NOT_FOUND]_svars

\* a stored key was deleted: DELETED, and the key is gone
C12_Witness ==
    /\ st_last.op = "delete"
    /\ st_last.ok
    /\ st_last.keys[1] \in DOMAIN st_last.pre
    /\ st_last.response = B_DELETED
    /\ st_last.keys[1] \notin DOMAIN db


\* the stored bytes of key k decode and are not expired at time t
RawLive(d, k, t) ==
    /\ db_get(d, k) # Absent
    /\ Len(db_get(d, k)) >= 12
    /\ ~RawExpired(db_get(d, k), t)

\* the VALUE blocks owed for keys[i..], read off the stored bytes
RECURSIVE LiveBlocks(_, _, _, _)
LiveBlocks(keys, d, t, i) ==
    IF i > Len(keys) THEN <<>>
    ELSE (IF RawLive(d, keys[i], t)
          THEN LET raw == db_get(d, keys[i]) IN
               B_VALUE \o keys[i] \o SP \o Itoa(FromLE(SubSeq(raw, 9, 12))) \o SP
                   \o Itoa(Len(raw) - 12) \o CRLF \o SubSeq(raw, 13, Len(raw)) \o CRLF
          ELSE <<>>)
         \o LiveBlocks(keys, d, t, i + 1)

\* C13: a get_multi that succeeds returns one pair per requested key, the
\* i-th carrying keys[i] (duplicates included), Some with the stored flags
\* and data for a live entry and None for an absent or expired one; the GET
\* response is the VALUE blocks of the live keys in request order, then END.
C13_GetMultiOrder ==
    (st_last.op = "get_multi" /\ st_last.ok) =>
        LET keys == st_last.keys
            pre == st_last.pre
            t == st_last.time
            r == RocksStorage_get_multi(pre, t, keys, st_last.f.multi, st_last.f.dels)
        IN  /\ r.ok
            /\ Len(r.results) = Len(keys)
            /\ \A i \in 1..Len(keys) :
                   /\ r.results[i].key = keys[i]
                   /\ r.results[i].res = st_last.res[i]
                   /\ r.results[i].res.tag = (IF RawLive(pre, keys[i], t) THEN "Some" ELSE "None")
                   /\ RawLive(pre, keys[i], t) =>
                          /\ r.results[i].res.value.flags = FromLE(SubSeq(pre[keys[i]], 9, 12))
                          /\ r.results[i].res.value.data =
                                 SubSeq(pre[keys[i]], 13, Len(pre[keys[i]]))
            /\ st_last.response = LiveBlocks(keys, pre, t, 1) \o B_END

\* `get x k` with x stored and k missing: x's VALUE block alone, then END
C13_Witness ==
    /\ st_last.op = "get_multi"
    /\ st_last.ok
    /\ st_last.keys = <<K2, K1>>
    /\ K1 \notin DOMAIN st_last.pre
    /\ st_last.res[1].tag = "Some"
    /\ st_last.res[2].tag = "None"
    /\ st_last.response = rw_end(rw_value(<<>>, K2, 7, <<97>>))


\* the stored bytes of key k are too short to hold the 12-byte header
RawShort(d, k) == db_get(d, k) # Absent /\ Len(db_get(d, k)) < 12

\* C15: decode accepts the stored byte strings of 12 bytes or more and no
\* shorter one.  A get whose lookup succeeds on an entry shorter than 12
\* bytes fails with the decoding error and answers SERVER_ERROR with it; a
\* get_multi that meets such an entry fails as a whole and answers one
\* SERVER_ERROR line (the decoding error, unless an engine lookup failed);
\* neither reports a miss or a hit, removes anything, or counts an expiry.
C15_ShortIsCorrupt ==
    [][(steps' = steps + 1 /\ st_last'.op \in {"get", "get_multi"}) =>
          LET keys == st_last'.keys
              f == st_last'.f
              short == {i \in 1..Len(keys) : RawShort(db, keys[i])}
              decoding == rw_server_error(<<>>, MSG_Decoding)
          IN  /\ \A k \in DOMAIN db : decode(db[k]).ok <=> Len(db[k]) >= 12
              /\ (st_last'.op = "get" /\ ~f.get /\ short # {}) =>
                     /\ st_last'.res[1].tag = "Err"
                     /\ st_last'.response = decoding
              /\ (st_last'.op = "get" /\ ~f.get /\ short = {} /\ keys[1] \in DOMAIN db) =>
                     st_last'.res[1].tag \in {"Some", "None"}
              /\ (st_last'.op = "get_multi" /\ short # {}) =>
                     /\ ~st_last'.ok
                     /\ OneLine(st_last'.response)
                     /\ StartsWith(st_last'.response, B_SERVER_ERROR)
                     /\ f.multi = {} => st_last'.response = decoding
              /\ short # {} =>
                     /\ db' = db
                     /\ expired_removed' = expired_removed
                     /\ ~Contains(st_last'.response, B_END)
                     /\ ~Contains(st_last'.response, B_VALUE)]_svars

\* a get of an 11-byte entry answered SERVER_ERROR and left the entry stored
C15_Witness ==
    /\ st_last.op = "get"
    /\ ~st_last.f.get
    /\ st_last.keys[1] \in DOMAIN st_last.pre
    /\ Len(st_last.pre[st_last.keys[1]]) = 11
    /\ st_last.response = rw_server_error(<<>>, MSG_Decoding)
    /\ db = st_last.pre


----------------------------------------------------------------------------
(* More properties of the connection *)

\* C14: a GET, SET or DELETE whose storage call fails produces one
\* SERVER_ERROR line and is counted once in storage_errors (which counts
\* nothing else); the task does not end for it: once every byte of a script
\* of commands was read, every command of the script has been executed.
C14_StorageErrorContinues ==
    /\ storage_errors = Faults
    /\ \A c \in Sockets :
           /\ \A j \in DOMAIN exec_log[c] :
                  LET e == exec_log[c][j] IN
                  e.kind = "cmd" =>
                      /\ e.f # NoFail =>
                             /\ e.cmd.type \in {"Get", "Set", "Delete"}
                             /\ OneLine(e.response)
                             /\ StartsWith(e.response, B_SERVER_ERROR)
                             /\ (j < Len(exec_log[c]) /\ ~is_noreply(e.cmd)) =>
                                    e.wrote = e.response
                      /\ e.f = NoFail => ~StartsWith(e.response, B_SERVER_ERROR)
           /\ (sock[c].script \in PlainScripts /\ Quiescent(c)) =>
                  Len(exec_log[c]) = Len(ScriptOf(c))
           /\ conn[c].pc = "done" =>
                  conn[c].exit \in {"eof", "read_error", "write_error", "quit", "shutdown"}

\* the GET of a pipeline failed in the engine; the DELETE and the VERSION
\* after it were answered
C14_Witness ==
    \E c \in Sockets :
        /\ sock[c].script = 4
        /\ Quiescent(c)
        /\ Len(exec_log[c]) = 4
        /\ exec_log[c][2].f # NoFail
        /\ storage_errors = 1
        /\ sock[c].outbox =
               rw_version(rw_deleted(rw_server_error(<<>>, MSG_RocksDb)), PKG_VERSION)


\* C16: a noreply SET or DELETE is executed where it stands in the order of
\* the commands and nothing is written for it, whether or not its storage
\* call failed: no write is started for it, and when the engine did not
\* fail the single-key GET that follows it on the connection sees its effect
\* (the value of the SET, a miss after the DELETE).
C16_NoreplyInOrder ==
    \A c \in Sockets :
        sock[c].script \in PlainScripts =>
            LET items == ScriptOf(c)
                log == exec_log[c]
                n == Len(log)
            IN  \A j \in 1..n :
                    SaidNoreply(items[j]) =>
                        /\ log[j].cmd = items[j].cmd
                        /\ log[j].wrote = <<>>
                        /\ j = n =>
                               /\ conn[c].pc # "write"
                               /\ conn[c].wbuf = <<>>
                               /\ sock[c].outbox = EmittedUpTo(c, j - 1)
                               /\ log[j].f = NoFail =>
                                      db_get(db, items[j].cmd.key) =
                                          IF items[j].cmd.type = "Delete" THEN Absent
                                          ELSE encode(StoredValue_new(items[j].cmd.flags,
                                                   items[j].cmd.exptime, items[j].cmd.data,
                                                   log[j].time))
                        /\ (/\ j < n
                            /\ log[j].f = NoFail
                            /\ log[j + 1].f = NoFail
                            /\ items[j + 1].cmd = CmdGet(<<items[j].cmd.key>>)) =>
                               log[j + 1].response =
                                   IF items[j].cmd.type = "Delete" THEN B_END
                                   ELSE rw_end(rw_value(<<>>, items[j].cmd.key,
                                                        items[j].cmd.flags, items[j].cmd.data))

\* a noreply SET, then a GET of its key: the first bytes on the socket are
\* the GET's VALUE block
C16_Witness ==
    \E c \in Sockets :
        /\ sock[c].script = 4
        /\ Len(exec_log[c]) = 2
        /\ conn[c].pc = "loop"
        /\ SaidNoreply(ScriptOf(c)[1])
        /\ sock[c].outbox = rw_end(rw_value(<<>>, K1, 7, <<97>>))


\* nothing is owed for the logged command or error e: it is noreply, it has
\* no response, or write_all has returned for its response
Settled(e) ==
    \/ e.kind = "cmd" /\ (SaidNoreply(e) \/ e.response = <<>>)
    \/ e.wrote = e.response

\* the bytes write_all has returned for, over the first n logged entries
RECURSIVE WroteUpTo(_, _)
WroteUpTo(c, n) ==
    IF n = 0 THEN <<>> ELSE WroteUpTo(c, n - 1) \o exec_log[c][n].wrote

\* C17: on a connection, every command but the last one executed has had
\* its response completely written (write_all returned), and whenever the
\* task is parsing or waiting for bytes so has the last one: no command is
\* parsed or executed while a response is pending, and the socket carries
\* the completed responses in order.
C17_WriteBeforeNext ==
    \A c \in Sockets :
        LET log == exec_log[c]
            n == Len(log)
        IN  /\ \A j \in 1..(n - 1) : Settled(log[j])
            /\ conn[c].pc \in {"loop", "select"} =>
                   /\ conn[c].wbuf = <<>>
                   /\ \A j \in 1..n : Settled(log[j])
            /\ conn[c].pc \in {"write", "write_err"} =>
                   /\ n > 0
                   /\ conn[c].wbuf = log[n].response
                   /\ log[n].wrote = <<>>
            /\ conn[c].exit # "write_error" => sock[c].outbox = WroteUpTo(c, n)

\* the third command of a pipeline awaits its write; the GET before it was
\* answered in full
C17_Witness ==
    \E c \in Sockets :
        /\ sock[c].script = 4
        /\ Len(exec_log[c]) = 3
        /\ conn[c].pc = "write"
        /\ exec_log[c][2].wrote = rw_end(rw_value(<<>>, K1, 7, <<97>>))
        /\ sock[c].outbox = exec_log[c][2].wrote
        /\ conn[c].wbuf = B_DELETED


\* C18: a parsed Quit ends the connection task: it is the last thing the
\* task executes, no byte is written for it, what follows it in the read
\* buffer is never executed, and the responses of everything before it were
\* written in full.
C18_QuitTerminates ==
    \A c \in Sockets :
        LET log == exec_log[c]
            n == Len(log)
        IN  \A j \in 1..n :
                (log[j].kind = "cmd" /\ log[j].cmd.type = "Quit") =>
                    /\ j = n
                    /\ log[j].response = <<>>
                    /\ log[j].wrote = <<>>
                    /\ conn[c].pc = "done"
                    /\ conn[c].exit = "quit"
                    /\ \A i \in 1..(j - 1) : Settled(log[i])
                    /\ sock[c].outbox = WroteUpTo(c, j - 1)

\* version, quit and a second version arrived together: the first version
\* was answered, the task is gone and the second version is still in the
\* read buffer, unexecuted
C18_Witness ==
    \E c \in Sockets :
        /\ sock[c].script = 6
        /\ Len(exec_log[c]) = 2
        /\ exec_log[c][2].cmd.type = "Quit"
        /\ exec_log[c][1].response # <<>>
        /\ sock[c].outbox = exec_log[c][1].response
        /\ conn[c].pc = "done"
        /\ conn[c].read_buf # <<>>
        /\ parse(conn[c].read_buf).kind = "Complete"


\* bytes that may follow a command in the buffer
Tails == {<<>>, <<13>>, <<13, 10>>, <<103, 13, 10>>, <<0, 255>>}

\* what C20 says of one input buffer
ParsePrefix(buf) ==
    LET r == parse(buf) IN
    r.kind = "Complete" =>
        /\ r.consumed <= Len(buf)
        /\ r.consumed > 0
        /\ parse(SubSeq(buf, 1, r.consumed)) = r
        /\ \A t \in Tails : parse(SubSeq(buf, 1, r.consumed) \o t) = r
        /\ r.cmd.type \in {"Get", "Delete", "Version", "Quit"} =>
               r.consumed = find_crlf(buf) + 2

\* C20: whenever parse returns Complete(cmd, n) for the bytes a connection
\* has buffered, n is at most the buffer's length, the first n bytes alone
\* parse to the same Complete(cmd, n), bytes after position n do not change
\* the result, and for get, delete, version and quit n is the index of the
\* first CRLF plus 2.
C20_ParsePrefix ==
    \A c \in Sockets :
        (conn[c].pc = "loop" /\ ~conn[c].pending_storage.some) =>
            ParsePrefix(conn[c].read_buf)

\* after the first command of a pipeline was parsed and executed, the
\* buffer holds a complete GET followed by two more commands
C20_Witness ==
    \E c \in Sockets :
        /\ sock[c].script = 4
        /\ conn[c].pc = "loop"
        /\ Len(exec_log[c]) = 1
        /\ parse(conn[c].read_buf).kind = "Complete"
        /\ parse(conn[c].read_buf).cmd.type = "Get"
        /\ parse(conn[c].read_buf).consumed < Len(conn[c].read_buf)


\* the engine calls on key k made after position i of the order
LaterWrites(k, i) ==
    {j \in (i + 1)..Len(race.order) :
        race.order[j].key = k /\ race.order[j].call \in {"put_opt", "delete_opt"}}

\* C19: the probe and the engine delete of DELETE are separate steps.  A
\* completed DELETE answers by what its probe saw (NOT_FOUND when the key
\* was absent then), whatever was stored in between, and the key is absent
\* when its delete_opt was the last write to the key; a completed SET
\* answers STORED and the key is present when its put was the last write.
\* So with a SET landing between the probe and the delete of a DELETE of an
\* absent key, the answers are NOT_FOUND and STORED and the key is absent.
C19_DeleteNotAtomic ==
    \A c \in Callers :
        LET cl == race.call[c] IN
        /\ (cl.op = "delete" /\ cl.pc = "done") =>
               /\ cl.probe_at < cl.write_at
               /\ cl.response = IF race.order[cl.probe_at].present THEN B_DELETED
                                ELSE B_NOT_FOUND
               /\ LaterWrites(cl.key, cl.write_at) = {} => cl.key \notin DOMAIN db
        /\ (cl.op = "set" /\ cl.pc = "done") =>
               /\ cl.response = B_STORED
               /\ LaterWrites(cl.key, cl.write_at) = {} => cl.key \in DOMAIN db

\* DELETE k probed the absent k, SET k stored it, then the delete removed
\* it: NOT_FOUND, STORED, and k is absent
C19_Witness ==
    \E c1 \in Callers, c2 \in Callers :
        /\ race.call[c1] = [op |-> "delete", key |-> K1, pc |-> "done", existed |-> FALSE,
                            response |-> B_NOT_FOUND, probe_at |-> 1, write_at |-> 3]
        /\ race.call[c2] = [op |-> "set", key |-> K1, pc |-> "done", existed |-> FALSE,
                            response |-> B_STORED, probe_at |-> 0, write_at |-> 2]
        /\ race.order = <<[caller |-> c1, call |-> "get", key |-> K1, present |-> FALSE],
                          [caller |-> c2, call |-> "put_opt", key |-> K1, present |-> FALSE],
                          [caller |-> c1, call |-> "delete_opt", key |-> K1, present |-> TRUE]>>
        /\ K1 \notin DOMAIN db


\* C24: is_valid_key(k) is true exactly when k is not empty, is at most 250
\* bytes long and every byte b of it has 0x20 < b < 0x7F.
C24_ValidKey ==
    applied.fn = "is_valid_key" =>
        LET k == applied.arg IN
        applied.out = (/\ Len(k) > 0
                       /\ Len(k) <= 250
                       /\ \A i \in 1..Len(k) : 32 < k[i] /\ k[i] < 127)

\* a key of exactly 250 bytes was accepted
C24_Witness ==
    /\ applied.fn = "is_valid_key"
    /\ Len(applied.arg) = 250
    /\ applied.out = TRUE


\* C23: calculate_expire_at maps 0 to 0, every exptime from 1 to 2592000 to
\* now + exptime and every larger exptime to itself; an absolute exptime that
\* is not after now gives a value that is expired as soon as it is stored.
C23_ExpireAt ==
    applied.fn = "calculate_expire_at" =>
        LET e == applied.arg.exptime
            t == applied.arg.now
        IN  /\ e = 0 => applied.out.expire_at = 0
            /\ (1 <= e /\ e <= 2592000) => applied.out.expire_at = t + e
            /\ e > 2592000 => applied.out.expire_at = e
            /\ (e > 2592000 /\ e <= t) => applied.out.expired

\* exptime 2592000 itself was taken as relative
C23_Witness ==
    /\ applied.fn = "calculate_expire_at"
    /\ applied.arg = [exptime |-> 2592000, now |-> NowBase + 1]
    /\ applied.out.expire_at = NowBase + 2592001
    /\ ~applied.out.expired

RECURSIVE ByteOf(_, _)
\* byte i (from 0, the least significant) of n
ByteOf(n, i) == IF i = 0 THEN n % 256 ELSE ByteOf(n \div 256, i - 1)

\* C25: decode(encode(v)) is v; encode(v) is 12 + len(data) bytes long: the 8
\* bytes of expire_at, least significant first, the 4 bytes of flags, least
\* significant first, then data; encode(decode(b)) is b for every b of at
\* least 12 bytes.
C25_RoundTrip ==
    /\ applied.fn = "encode" =>
           LET v == applied.arg
               b == applied.out.bytes
           IN  /\ applied.out.back.ok
               /\ applied.out.back.value = v
               /\ Len(b) = 12 + Len(v.data)
               /\ \A i \in 0..7 : b[i + 1] = ByteOf(v.expire_at, i)
               /\ \A i \in 0..3 : b[i + 9] = ByteOf(v.flags, i)
               /\ SubSeq(b, 13, Len(b)) = v.data
    /\ (applied.fn = "decode" /\ Len(applied.arg) >= 12) =>
           /\ applied.out.ok
           /\ encode(applied.out.value) = applied.arg

\* a value with data containing CR and 0xFF went through encode and decode
C25_Witness ==
    /\ applied.fn = "encode"
    /\ applied.arg = [expire_at |-> NowBase, flags |-> 65536, data |-> <<13, 255>>]
    /\ applied.out.bytes = LEBytes(NowBase, 8) \o <<0, 0, 1, 0, 13, 255>>
    /\ applied.out.back.value = applied.arg

\* the first 8 bytes of value, read little-endian, are a nonzero number that
\* is at most t (t is below 2^24)
NonzeroAtMost(value, t) ==
    /\ \A i \in 4..8 : value[i] = 0
    /\ value[1] + 256 * value[2] + 65536 * value[3] # 0
    /\ value[1] + 256 * value[2] + 65536 * value[3] <= t

\* C26: the compaction filter answers Remove exactly when the value has at
\* least 8 bytes and its first 8 bytes are, little-endian, a nonzero
\* expire_at <= now, and Keep otherwise (never Change: the value stays as it
\* is); the removed counter goes up by one on Remove and stays on Keep.
C26_CompactionFilter ==
    applied.fn = "ttl_compaction_filter" =>
        LET v == applied.arg.value
            t == applied.arg.now
            remove == Len(v) >= 8 /\ NonzeroAtMost(v, t)
        IN  /\ applied.out.decision = IF remove THEN "Remove" ELSE "Keep"
            /\ applied.removed = applied.out.before + IF remove THEN 1 ELSE 0

\* an entry expiring exactly now was the second one removed
C26_Witness ==
    /\ applied.fn = "ttl_compaction_filter"
    /\ applied.arg.now = NowBase + 1
    /\ applied.arg.value = LEBytes(NowBase + 1, 8)
    /\ applied.out = [decision |-> "Remove", before |-> 1]
    /\ applied.removed = 2


\* buf has a CR immediately followed by LF
HasCRLF(buf) == \E i \in 1..(Len(buf) - 1) : buf[i] = 13 /\ buf[i + 1] = 10

\* position (from 1) of the CR of the first CRLF of buf
FirstCRLF(buf) ==
    CHOOSE i \in 1..(Len(buf) - 1) :
        /\ buf[i] = 13 /\ buf[i + 1] = 10
        /\ \A j \in 1..(i - 1) : ~(buf[j] = 13 /\ buf[j + 1] = 10)

\* the space-delimited tokens of the first line of buf
Tokens(buf) == Split(SubSeq(buf, 1, FirstCRLF(buf) - 1), 32)

Lower(tok) == [i \in 1..Len(tok) |-> IF tok[i] >= 65 /\ tok[i] <= 90 THEN tok[i] + 32 ELSE tok[i]]

\* the command a lower-case command name stands for
TypeOf(name) ==
    IF name = B_get THEN "Get" ELSE IF name = B_set THEN "Set"
    ELSE IF name = B_delete THEN "Delete" ELSE IF name = B_version THEN "Version"
    ELSE "Quit"

C28_DeleteNoreply ==
    (applied.fn = "parse" /\ HasCRLF(applied.arg)) =>
        LET toks == Tokens(applied.arg) IN
        (Head(toks) = B_delete /\ Len(toks) >= 2 /\ is_valid_key(toks[2])) =>
            applied.out =
                Complete(CmdDelete(toks[2], \E i \in 3..Len(toks) : toks[i] = B_noreply),
                         FirstCRLF(applied.arg) + 1)

\* "delete k 0 0 noreply": noreply after two tokens that are dropped
C28_Witness ==
    /\ applied.fn = "parse"
    /\ applied.arg = B_delete \o SP \o K1 \o <<32, 48, 32, 48>> \o SP \o B_noreply \o CRLF
    /\ applied.out = Complete(CmdDelete(K1, TRUE), 22)

\* C29: on a get line empty tokens are skipped and the others are the keys,
\* in order; the first invalid token fails the command, with KeyTooLong
\* when it is longer than 250 bytes and InvalidKey otherwise; a get line
\* without a key token fails; a Complete result names all the tokens.
C29_GetKeys ==
    (applied.fn = "parse" /\ HasCRLF(applied.arg)) =>
        LET toks == Tokens(applied.arg)
            keys == SelectSeq(Tail(toks), LAMBDA t : t # <<>>)
            bad == {i \in 1..Len(keys) : ~is_valid_key(keys[i])}
        IN  Head(toks) = B_get =>
                IF keys = <<>> THEN applied.out.kind = "Error"
                ELSE IF bad = {}
                THEN applied.out = Complete(CmdGet(keys), FirstCRLF(applied.arg) + 1)
                ELSE LET first == keys[CHOOSE i \in bad : \A j \in bad : i <= j] IN
                     applied.out = IF Len(first) > 250 THEN Error("KeyTooLong", <<>>)
                                   ELSE Error("InvalidKey", first)

\* a valid key, then a token of 251 control bytes: KeyTooLong
C29_Witness ==
    /\ applied.fn = "parse"
    /\ applied.arg = B_get \o SP \o K1 \o SP \o Rep(1, 251) \o CRLF
    /\ applied.out = Error("KeyTooLong", <<>>)


\* tok is one or more ASCII digits and the number is at most the one with
\* the digits maxDigits
InRange(tok, maxDigits) ==
    /\ tok # <<>>
    /\ \A i \in 1..Len(tok) : tok[i] >= 48 /\ tok[i] <= 57
    /\ FitsDigits(StripZeros([i \in 1..Len(tok) |-> tok[i] - 48]), maxDigits)

\* token i of toks, empty when the line has fewer tokens
TokenAt(toks, i) == IF i <= Len(toks) THEN toks[i] ELSE <<>>

\* C22: in a SET header with a valid key, flags, exptime and bytes are
\* accepted only when they are ASCII decimal digits and nothing else, within
\* 32, 64 and 64 bits: otherwise the result is InvalidFlags, InvalidExptime
\* or InvalidBytesLength, for the first of the three fields that fails; with
\* all three in order the result is none of these errors.
C22_NumericFields ==
    (applied.fn = "parse" /\ HasCRLF(applied.arg)) =>
        LET toks == Tokens(applied.arg)
            out == applied.out
        IN  (Head(toks) = B_set /\ Len(toks) >= 2 /\ is_valid_key(toks[2])) =>
                IF ~InRange(TokenAt(toks, 3), U32_MAX_DIGITS)
                THEN out = Error("InvalidFlags", <<>>)
                ELSE IF ~InRange(TokenAt(toks, 4), U64_MAX_DIGITS)
                THEN out = Error("InvalidExptime", <<>>)
                ELSE IF ~InRange(TokenAt(toks, 5), U64_MAX_DIGITS)
                THEN out = Error("InvalidBytesLength", <<>>)
                ELSE ~(out.kind = "Error" /\ out.err \in {"InvalidFlags", "InvalidExptime",
                                                           "InvalidBytesLength"})

\* C21: behind a valid SET header that declares b bytes and whose CRLF is at
\* index h, parse returns NeedMoreData while the buffer is shorter than
\* h + 2 + b + 2 (always, for a b beyond every buffer), else UnexpectedData
\* unless the two bytes at h + 2 + b are CR LF, else Complete with the b bytes
\* from h + 2 as data, whatever they are, and consumed = h + 2 + b + 2.
C21_SetData ==
    (applied.fn = "parse" /\ HasCRLF(applied.arg)) =>
        LET buf == applied.arg
            toks == Tokens(buf)
            h == FirstCRLF(buf) - 1
            b == parse_usize(TokenAt(toks, 5))
        IN  (/\ Head(toks) = B_set /\ Len(toks) \in {5, 6} /\ is_valid_key(toks[2])
             /\ InRange(toks[3], U32_MAX_DIGITS) /\ InRange(toks[4], INT_MAX_DIGITS)
             /\ InRange(toks[5], U64_MAX_DIGITS)) =>
                IF b = Wide \/ Len(buf) < h + 2 + b + 2 THEN applied.out = NeedMoreData
                ELSE IF buf[h + 2 + b + 1] # 13 \/ buf[h + 2 + b + 2] # 10
                THEN applied.out = Error("UnexpectedData", <<>>)
                ELSE applied.out =
                         Complete(CmdSet(toks[2], parse_u32(toks[3]), parse_u64(toks[4]),
                                         SubSeq(buf, h + 3, h + 2 + b),
                                         TokenAt(toks, 6) = B_noreply),
                                  h + 2 + b + 2)


\* C30: on a parse Error the task drops the read buffer up to and including
\* its first CRLF, wherever that is, and all of it only when it holds no
\* CRLF: a bare CR before the CRLF costs no later line.  It clears the
\* pending SET and hands exactly one CLIENT_ERROR line to the socket.
C30_ErrorRecovery ==
    [][\A c \in Sockets :
          (conn[c].pc = "loop" /\ conn'[c].pc = "write_err") =>
              LET buf == conn[c].read_buf IN
              /\ conn'[c].read_buf =
                     IF HasCRLF(buf) THEN SubSeq(buf, FirstCRLF(buf) + 2, Len(buf)) ELSE <<>>
              /\ ~conn'[c].pending_storage.some
              /\ StartsWith(conn'[c].wbuf, B_CLIENT_ERROR)
              /\ OneLine(conn'[c].wbuf)
              /\ Len(exec_log'[c]) = Len(exec_log[c]) + 1]_svars


\* C31: once the token is cancelled the acceptor admits nobody: no step
\* taken after cancellation acquires a permit or spawns a connection task
\* (total_connections counts the spawns), whatever waits in the backlog.
C31_NoAdmissionAfterCancel ==
    [][cancelled =>
          /\ metrics'.total_connections = metrics.total_connections
          /\ \A c \in Sockets : conn[c].pc = "queued" => conn'[c].pc # "select"]_svars


\* the lazy deletes of GETs on key k made after position i of the order
LaterLazyDeletes(k, i) ==
    {j \in (i + 1)..Len(race.order) :
        /\ race.order[j].key = k
        /\ race.order[j].call = "delete_opt"
        /\ race.call[race.order[j].caller].op = "get"}

\* C32: a GET's lazy delete removes only the expired entry the GET saw.  A
\* completed SET of a value without expiry, with no later SET or DELETE of
\* the key, leaves the key stored with that value whatever GETs of other
\* tasks do around it.
C32_LazyDeleteKeepsFresh ==
    \A c \in Callers :
        LET cl == race.call[c] IN
        (/\ cl.op = "set" /\ cl.pc = "done"
         /\ LaterWrites(cl.key, cl.write_at) \subseteq LaterLazyDeletes(cl.key, cl.write_at)) =>
            db_get(db, cl.key) = encode(StoredValue_new(RaceValue.flags, 0, RaceValue.data, now))


\* the lazy deletes made so far that found their key stored
LazyRemovals ==
    {j \in 1..Len(race.order) :
        /\ race.order[j].call = "delete_opt"
        /\ race.call[race.order[j].caller].op = "get"
        /\ race.order[j].present}

\* C33: EXPIRED_KEYS_REMOVED counts removed entries, not lookups: when no
\* GET is between its lookup and its lazy delete, the counter equals the
\* number of lazy deletes that removed an entry, also when GETs of several
\* tasks saw the same expired entry.
C33_CounterPerEntry ==
    (\A c \in Callers : race.call[c].pc # "expired") =>
        expired_removed = Cardinality(LazyRemovals)


\* C34: a DELETE whose engine calls succeed, of a key whose stored entry has
\* a nonzero expire_at <= now, answers NOT_FOUND, and the entry is gone
\* afterwards.
C34_DeleteExpired ==
    [][(/\ steps' = steps + 1 /\ st_last'.op = "delete" /\ st_last'.f = NoFail
        /\ RawExpired(db_get(db, st_last'.keys[1]), now)) =>
           /\ st_last'.response = B_NOT_FOUND
           /\ st_last'.keys[1] \notin DOMAIN db']_svars


\* C35: a multi-key GET that fails (an engine error or an undecodable
\* entry at any position) has deleted nothing and has not touched the
\* expired-by-lazy counter, also when an earlier key of the batch was found
\* expired; the response is one SERVER_ERROR line without any VALUE block.
C35_GetMultiErrorNoEffect ==
    [][(steps' = steps + 1 /\ st_last'.op = "get_multi" /\ ~st_last'.ok) =>
           /\ db' = db
           /\ expired_removed' = expired_removed
           /\ storage_errors' = storage_errors + 1
           /\ StartsWith(st_last'.response, B_SERVER_ERROR)
           /\ OneLine(st_last'.response)
           /\ ~Contains(st_last'.response, B_VALUE)]_svars

\* a batch failed at its second key after its first key was found expired,
\* and the expired entry is still stored
C35_Witness ==
    /\ st_last.op = "get_multi"
    /\ ~st_last.ok
    /\ st_last.keys[1] # st_last.keys[2]
    /\ RawExpired(db_get(st_last.pre, st_last.keys[1]), st_last.time)
    /\ db = st_last.pre
    /\ expired_removed = 0


\* the descriptor p is what the first line of buf says: a SET header whose
\* CRLF is at command_line_end, with p's key, flags, exptime, bytes, noreply
HeaderOf(buf, p) ==
    /\ HasCRLF(buf)
    /\ p.command_line_end = FirstCRLF(buf) - 1
    /\ LET toks == Tokens(buf) IN
       /\ Len(toks) >= 5
       /\ Lower(toks[1]) = B_set
       /\ p.key = toks[2]
       /\ p.flags = parse_u32(toks[3])
       /\ p.exptime = parse_u64(toks[4])
       /\ p.bytes = parse_usize(toks[5])
       /\ p.noreply = (TokenAt(toks, 6) = B_noreply)

\* C36: while a running task holds a pending SET, its read buffer begins
\* with the header line the descriptor was parsed from; as long as the
\* descriptor is held it does not change and the buffer only grows at its
\* end; a step that takes bytes from the front of the buffer clears it.
C36_PendingMatchesBuffer ==
    [][\A c \in Sockets :
          /\ (c \in Running' /\ conn'[c].pending_storage.some) =>
                 HeaderOf(conn'[c].read_buf, conn'[c].pending_storage)
          /\ (c \in Running /\ c \in Running' /\ conn[c].pending_storage.some) =>
                 \/ /\ conn'[c].pending_storage = conn[c].pending_storage
                    /\ IsPrefix(conn[c].read_buf, conn'[c].read_buf)
                 \/ /\ ~conn'[c].pending_storage.some
                    /\ conn'[c].pc \in {"loop", "write", "write_err"}]_svars

\* an Error arm ran while a pending SET was held (the data block did not
\* end in CRLF): the header line was dropped and the descriptor cleared
C36_ErrorWitness ==
    \E c \in Sockets :
        /\ conn[c].pc = "write_err"
        /\ exec_log[c] # <<>>
        /\ exec_log[c][Len(exec_log[c])].pending
        /\ ~conn[c].pending_storage.some

\* a task holds a pending SET over a second read: bytes were appended after
\* the header was parsed, and the data block is still incomplete
C36_Witness ==
    \E c \in Sockets :
        /\ conn[c].pc = "loop"
        /\ conn[c].pending_storage.some
        /\ sock[c].nreads >= 2
        /\ Len(conn[c].read_buf) > conn[c].pending_storage.command_line_end + 3
        /\ parse_storage_data(conn[c].read_buf, conn[c].pending_storage) = NeedMoreData


\* parse rejected the header line of a SET: any error but UnexpectedData,
\* which is about the data block
RejectsHeader(r) == r.kind = "Error" /\ r.err # "UnexpectedData"

C38_GaugeIsRunning ==
    /\ metrics.active_connections = Cardinality(Running)
    /\ max_connections - permits = Cardinality(Running)


RECURSIVE ValueBlocks(_)
\* r is VALUE blocks and then nothing: each block a line "VALUE <key>
\* <flags> <bytes>", then exactly <bytes> bytes of data and a CRLF.  The
\* result is the number of blocks, or -1 when r is not of that form.
ValueBlocks(r) ==
    IF r = <<>> THEN 0
    ELSE IF ~StartsWith(r, B_VALUE) \/ ~HasCRLF(r) THEN -1
    ELSE LET toks == Tokens(r)
             h == FirstCRLF(r) - 1
             n == IF Len(toks) = 4 THEN parse_usize(toks[4]) ELSE NoInt
         IN  IF n < 0 \/ parse_u32(TokenAt(toks, 3)) < 0 \/ TokenAt(toks, 2) = <<>> THEN -1
             ELSE IF Len(r) < h + 2 + n + 2 THEN -1
             ELSE IF r[h + 2 + n + 1] # 13 \/ r[h + 2 + n + 2] # 10 THEN -1
             ELSE LET rest == ValueBlocks(SubSeq(r, h + 2 + n + 3, Len(r)))
                  IN IF rest < 0 THEN -1 ELSE rest + 1

\* C39: the response of a GET is VALUE blocks (at most one per key asked
\* for) closed by one END line, or it is one SERVER_ERROR line and nothing
\* else; the second exactly when the storage call failed.
C39_GetResponseShape ==
    st_last.op \in {"get", "get_multi"} =>
        LET r == st_last.response IN
        IF st_last.ok
        THEN /\ EndsWith(r, B_END)
             /\ ValueBlocks(SubSeq(r, 1, Len(r) - Len(B_END))) \in 0..Len(st_last.keys)
        ELSE /\ StartsWith(r, B_SERVER_ERROR)
             /\ OneLine(r)

\* a multi-key GET answered two VALUE blocks, one with the data "\r\n",
\* and END
C39_Witness ==
    /\ st_last.op = "get_multi"
    /\ st_last.ok
    /\ ValueBlocks(SubSeq(st_last.response, 1, Len(st_last.response) - Len(B_END))) = 2
    /\ \E i \in 1..2 : st_last.res[i].tag = "Some" /\ st_last.res[i].value.data = CRLF


\* the parser returned on buf without leaving the buffer: NeedMoreData, an
\* Error, or Complete having consumed no more than buf holds
ReturnsWithin(r, buf) ==
    /\ r.kind \in {"NeedMoreData", "Error", "Complete"}
    /\ r.kind = "Complete" => r.consumed <= Len(buf)

\* C40: whatever byte count a SET header declares, up to the largest
\* machine word, parse and parse_storage_data compute the end of the data
\* block without overflow: they never panic and never index outside the
\* buffer, and Complete consumes at most the buffer.
C40_NoOverflow ==
    /\ applied.fn = "parse" => ReturnsWithin(applied.out, applied.arg)
    /\ applied.fn = "two_phase" =>
           /\ ReturnsWithin(applied.out.one, applied.arg)
           /\ ReturnsWithin(applied.out.two, applied.arg)

====
